---- MODULE Spec2Model ----
(***************************************************************************)
(* Model of the root / batch / work handles of                             *)
(* packages/react-dom/src/client/ReactDOM.js.                              *)
(*                                                                         *)
(* Objects are held in sequences and referred to by their index; 0 is the  *)
(* null reference.  Every handler is an operator over a record holding the *)
(* whole heap (Heap), so that a handler calling another one (commit calls  *)
(* render and flushRoot) is the composition of the operators.  An error    *)
(* raised by a handler is the field err of the heap it returns: the        *)
(* assignments made before the throw are kept, the ones after are not.     *)
(***************************************************************************)
EXTENDS Integers, Sequences, FiniteSets, TLC

\* ------------------------------------------------------------------ bounds
MaxBatches == 3
MaxWorks == 4
MaxRegs == 2
\* root.render calls in one run of the handles
MaxRenders == 1
\* handler calls and scheduler steps in one run
MaxCalls == 5
\* component instances (a fiber and its alternate are one) in a fiber forest
MaxNodes == 3

\* ------------------------------------------------------------ input domains
\* values computeUniqueAsyncExpiration / the scheduler may hand out
ExpTimes == {3, 5, 10}
\* ReactNodeList values given to render; "null" is the null children
ChildrenSet == {"X", "Y"}
\* what a caller can pass as a callback: a function that returns, a function
\* that throws, a value that is not a function
CbKinds == {"fn", "throws", "notfn"}

\* ------------------------------------------------------------- error names
OK == "ok"
ErrCommitTwice == "batch.commit: Cannot commit a batch multiple times."
ErrRenderCommitted == "batch.render: Cannot render a batch that already committed."
ErrInvalidCallback == "Invalid argument passed as callback. Expected a function."
ErrTypeError == "TypeError"
ErrCallbackThrew == "callback threw"
ErrNotContainer == "Target container is not a DOM element."
ErrUnmountNotContainer == "unmountComponentAtNode(...): Target container is not a DOM element."
ErrParentComponent == "parentComponent must be a valid React Component"

VARIABLES
    batches,        \* Seq of ReactBatch objects, index = identity, creation order
    firstBatch,     \* internalRoot.firstBatch (0 = null)
    works,          \* Seq of ReactWork objects
    updateQueue,    \* updates enqueued on the internal root, not yet flushed
    committedWorks, \* works whose update the scheduler has committed
    rootChildren,   \* children last committed into the root
    regs,           \* every callback ever passed to then(), index = identity
    log,            \* callback invocations, in the order they happened
    lastOp,         \* the handler that ran last, its outcome and its calls out
    calls,          \* number of handler calls and scheduler steps so far
    reactRootContainer, \* container._reactRootContainer (0 = not set)
    rootsCreated,       \* number of ReactRoot objects made for the container
    isBatchingUpdates,  \* the caller is inside batchedUpdates
    fibers,             \* the fibers of both tree versions, by identity
    current,            \* root.current of the FiberRoot (0 = no FiberRoot)
    walk                \* the locals of a findCurrentHostFiber call under way

vars == <<batches, firstBatch, works, updateQueue, committedWorks,
          rootChildren, regs, log, lastOp, calls,
          reactRootContainer, rootsCreated, isBatchingUpdates,
          fibers, current, walk>>

\* --------------------------------------------------------------- the heap
Heap ==
    [batches |-> batches, firstBatch |-> firstBatch, works |-> works,
     updateQueue |-> updateQueue, committedWorks |-> committedWorks,
     rootChildren |-> rootChildren, regs |-> regs, log |-> log,
     reactRootContainer |-> reactRootContainer, rootsCreated |-> rootsCreated,
     isBatchingUpdates |-> isBatchingUpdates,
     steps |-> <<>>, writes |-> <<>>, err |-> OK]

Step(ev, exp, children) == [ev |-> ev, exp |-> exp, children |-> children]

\* commit assigned `to` to a field; `after` is the number of calls out
\* (enqueue, flush) commit had made by then
Write(h, field, to) ==
    [h EXCEPT !.writes = Append(@, [field |-> field, to |-> to,
                                    after |-> Len(h.steps)])]

\* ----------------------------------------------------------- constructors
ReactBatch(expirationTime) ==
    [expirationTime |-> expirationTime, next |-> 0, callbacks |-> <<>>,
     didComplete |-> FALSE, hasChildren |-> FALSE, children |-> "null",
     defer |-> TRUE]

ReactWork == [callbacks |-> <<>>, didCommit |-> FALSE]

\* -------------------------------------------------- reconciler operations
\* enqueue an update of the container at a given expiration time
updateContainerAtExpirationTime(h, children, expirationTime, work) ==
    [h EXCEPT
       !.updateQueue = Append(@, [children |-> children,
                                  expirationTime |-> expirationTime,
                                  work |-> work]),
       !.steps = Append(@, Step("enqueue", expirationTime, children))]

\* flush the pending work of the root up to an expiration time: the updates
\* whose expiration time is at least the threshold are committed in enqueue
\* order (the last one wins), the others stay pending
flushRoot(h, expirationTime) ==
    LET due(u) == u.expirationTime >= expirationTime
        done == SelectSeq(h.updateQueue, due)
        keep == SelectSeq(h.updateQueue, LAMBDA u : ~due(u))
    IN [h EXCEPT
          !.updateQueue = keep,
          !.committedWorks = @ \cup {done[i].work : i \in 1..Len(done)},
          !.rootChildren = IF done = <<>> THEN @ ELSE done[Len(done)].children,
          !.steps = Append(@, Step("flush", expirationTime, "null"))]

\* ------------------------------------------------------- callback draining
\* the callbacks of a queue that get invoked by a for loop that stops at the
\* first throw: a non-function is rejected before the call, a throwing
\* function is called and ends the loop
RECURSIVE Invoked(_, _)
Invoked(rg, cbs) ==
    IF cbs = <<>> THEN <<>>
    ELSE LET k == rg[Head(cbs)].kind
         IN IF k = "notfn" THEN <<>>
            ELSE IF k = "throws" THEN <<Head(cbs)>>
            ELSE <<Head(cbs)>> \o Invoked(rg, Tail(cbs))

\* how the loop ends: OK, or the kind of the first failing callback
RECURSIVE FirstFailure(_, _)
FirstFailure(rg, cbs) ==
    IF cbs = <<>> THEN "fn"
    ELSE LET k == rg[Head(cbs)].kind
         IN IF k = "fn" THEN FirstFailure(rg, Tail(cbs)) ELSE k

\* ------------------------------------------------------------- ReactWork
NewReg(kind, handle, id, late, via) ==
    [kind |-> kind, handle |-> handle, id |-> id, late |-> late, via |-> via]

\* variant: then() queues the callback whether or not the work committed
ReactWork_then_AlwaysQueue(h, w, kind, via) ==
    LET h1 == [h EXCEPT !.regs = Append(@, NewReg(kind, "work", w,
                                                  h.works[w].didCommit, via))]
    IN [h1 EXCEPT !.works[w].callbacks = Append(@, Len(h1.regs))]

ReactWork_then(h, w, kind, via) ==
    IF h.works[w].didCommit
    THEN LET h1 == [h EXCEPT !.regs = Append(@, NewReg(kind, "work", w, TRUE, via))]
             r == Len(h1.regs)
         IN IF kind = "notfn" THEN [h1 EXCEPT !.err = ErrTypeError]
            ELSE IF kind = "throws"
                 THEN [h1 EXCEPT !.log = Append(@, r), !.err = ErrCallbackThrew]
            ELSE [h1 EXCEPT !.log = Append(@, r)]
    ELSE LET h1 == [h EXCEPT !.regs = Append(@, NewReg(kind, "work", w, FALSE, via))]
         IN [h1 EXCEPT !.works[w].callbacks = Append(@, Len(h1.regs))]

\* variant: the loop over the callbacks starts at the second one
ReactWork_onCommit_SkipFirst(h, w) ==
    IF h.works[w].didCommit THEN [h EXCEPT !.steps = Append(@, Step("return", 0, "null"))]
    ELSE LET cbs == h.works[w].callbacks
             rest == IF cbs = <<>> THEN <<>> ELSE Tail(cbs)
             f == FirstFailure(h.regs, rest)
         IN [h EXCEPT
               !.works[w].didCommit = TRUE,
               !.log = @ \o Invoked(h.regs, rest),
               !.err = IF f = "notfn" THEN ErrInvalidCallback
                       ELSE IF f = "throws" THEN ErrCallbackThrew ELSE OK]

\* variant: the work is marked committed after its callbacks have run
ReactWork_onCommit_MarkAfter(h, w) ==
    IF h.works[w].didCommit THEN [h EXCEPT !.steps = Append(@, Step("return", 0, "null"))]
    ELSE LET cbs == h.works[w].callbacks
             f == FirstFailure(h.regs, cbs)
         IN [h EXCEPT
               !.works[w].didCommit = (f = "fn"),
               !.log = @ \o Invoked(h.regs, cbs),
               !.err = IF f = "notfn" THEN ErrInvalidCallback
                       ELSE IF f = "throws" THEN ErrCallbackThrew ELSE OK]

ReactWork_onCommit(h, w) ==
    IF h.works[w].didCommit THEN [h EXCEPT !.steps = Append(@, Step("return", 0, "null"))]
    ELSE LET cbs == h.works[w].callbacks
             f == FirstFailure(h.regs, cbs)
         IN [h EXCEPT
               !.works[w].didCommit = TRUE,
               !.log = @ \o Invoked(h.regs, cbs),
               !.err = IF f = "notfn" THEN ErrInvalidCallback
                       ELSE IF f = "throws" THEN ErrCallbackThrew ELSE OK]

\* ------------------------------------------------------------- ReactBatch
\* variant: render without the check that the batch is still deferred
ReactBatch_render_NoCheck(h, b, children) ==
    LET h1 == [h EXCEPT !.batches[b].hasChildren = TRUE,
                        !.batches[b].children = children,
                        !.works = Append(@, ReactWork)]
    IN updateContainerAtExpirationTime(
           h1, children, h.batches[b].expirationTime, Len(h1.works))

ReactBatch_render(h, b, children) ==
    IF ~h.batches[b].defer THEN [h EXCEPT !.err = ErrRenderCommitted]
    ELSE LET h1 == [h EXCEPT !.batches[b].hasChildren = TRUE,
                             !.batches[b].children = children,
                             !.works = Append(@, ReactWork)]
         IN updateContainerAtExpirationTime(
                h1, children, h.batches[b].expirationTime, Len(h1.works))

ReactBatch_then(h, b, kind) ==
    IF h.batches[b].didComplete
    THEN LET h1 == [h EXCEPT !.regs = Append(@, NewReg(kind, "batch", b, TRUE, "then"))]
             r == Len(h1.regs)
         IN IF kind = "notfn" THEN [h1 EXCEPT !.err = ErrTypeError]
            ELSE IF kind = "throws"
                 THEN [h1 EXCEPT !.log = Append(@, r), !.err = ErrCallbackThrew]
            ELSE [h1 EXCEPT !.log = Append(@, r)]
    ELSE LET h1 == [h EXCEPT !.regs = Append(@, NewReg(kind, "batch", b, FALSE, "then"))]
         IN [h1 EXCEPT !.batches[b].callbacks = Append(@, Len(h1.regs))]

\* variant: _onComplete does not look at _didComplete
ReactBatch_onComplete_NoGuard(h, b) ==
    LET cbs == h.batches[b].callbacks
        f == FirstFailure(h.regs, cbs)
    IN [h EXCEPT
          !.batches[b].didComplete = TRUE,
          !.log = @ \o Invoked(h.regs, cbs),
          !.err = IF f = "notfn" THEN ErrTypeError
                  ELSE IF f = "throws" THEN ErrCallbackThrew ELSE OK]

ReactBatch_onComplete(h, b) ==
    IF h.batches[b].didComplete THEN [h EXCEPT !.steps = Append(@, Step("return", 0, "null"))]
    ELSE LET cbs == h.batches[b].callbacks
             f == FirstFailure(h.regs, cbs)
         IN [h EXCEPT
               !.batches[b].didComplete = TRUE,
               !.log = @ \o Invoked(h.regs, cbs),
               !.err = IF f = "notfn" THEN ErrTypeError
                       ELSE IF f = "throws" THEN ErrCallbackThrew ELSE OK]

\* variant: the loop stops one batch early
RECURSIVE FindPrevious_OneEarly(_, _, _, _)
FindPrevious_OneEarly(bs, previous, batch, this) ==
    IF batch = this THEN previous
    ELSE IF batch = 0 THEN -1
    ELSE IF bs[batch].next = this THEN previous
    ELSE FindPrevious_OneEarly(bs, batch, bs[batch].next, this)

\* the loop of commit that looks for the batch before `this`:
\*   while (batch !== this) { previous = batch; batch = batch._next; }
\* -1 stands for the TypeError of reading _next of null
RECURSIVE FindPrevious(_, _, _, _)
FindPrevious(bs, previous, batch, this) ==
    IF batch = this THEN previous
    ELSE IF batch = 0 THEN -1
    ELSE FindPrevious(bs, batch, bs[batch].next, this)

\* variant: the committed batch is not popped from the list
CommitFlushAndPop_NoPop(h, b, expirationTime) ==
    LET h1 == flushRoot(Write([h EXCEPT !.batches[b].defer = FALSE],
                              "_defer", FALSE), expirationTime)
        next == h1.batches[b].next
    IN IF next # 0 /\ h1.batches[next].hasChildren
       THEN ReactBatch_render(h1, next, h1.batches[next].children)
       ELSE h1

\* variant: the new head is rendered again whether or not it has children
CommitFlushAndPop_AlwaysRender(h, b, expirationTime) ==
    LET h1 == flushRoot(Write([h EXCEPT !.batches[b].defer = FALSE],
                              "_defer", FALSE), expirationTime)
        next == h1.batches[b].next
        h2 == Write([h1 EXCEPT !.batches[b].next = 0, !.firstBatch = next],
                    "firstBatch", next)
    IN IF next # 0
       THEN ReactBatch_render(h2, next, h2.batches[next].children)
       ELSE h2

\* the tail of commit, after the batch has been made the first of the list
CommitFlushAndPop(h, b, expirationTime) ==
    LET h1 == flushRoot(Write([h EXCEPT !.batches[b].defer = FALSE],
                              "_defer", FALSE), expirationTime)
        next == h1.batches[b].next
        h2 == Write([h1 EXCEPT !.batches[b].next = 0, !.firstBatch = next],
                    "firstBatch", next)
    IN IF next # 0 /\ h2.batches[next].hasChildren
       THEN ReactBatch_render(h2, next, h2.batches[next].children)
       ELSE h2

\* variant: commit does not look at _defer
CanCommit_NoDefer(h, b) == h.firstBatch # 0

\* the precondition of commit
CanCommit(h, b) == h.batches[b].defer /\ h.firstBatch # 0

\* variant: the batch keeps its own expiration time when it is promoted
ReactBatch_commit_KeepTime(h, b) ==
    LET first == h.firstBatch IN
    IF ~CanCommit(h, b) THEN [h EXCEPT !.err = ErrCommitTwice]
    ELSE IF ~h.batches[b].hasChildren
    THEN [h EXCEPT !.batches[b].next = 0, !.batches[b].defer = FALSE]
    ELSE IF first = b
    THEN CommitFlushAndPop(h, b, h.batches[b].expirationTime)
    ELSE LET expirationTime == h.batches[b].expirationTime
             h1 == ReactBatch_render(h, b, h.batches[b].children)
             previous == FindPrevious(h1.batches, 0, first, b)
         IN IF h1.err # OK THEN h1
            ELSE IF previous = -1 THEN [h1 EXCEPT !.err = ErrTypeError]
            ELSE IF previous = 0 THEN [h1 EXCEPT !.err = ErrCommitTwice]
            ELSE CommitFlushAndPop(
                     Write([h1 EXCEPT !.batches[previous].next = h1.batches[b].next,
                                      !.batches[b].next = first,
                                      !.firstBatch = b],
                           "firstBatch", b),
                     b, expirationTime)

\* batch.commit()
ReactBatch_commit(h, b) ==
    LET first == h.firstBatch IN
    IF ~CanCommit(h, b) THEN [h EXCEPT !.err = ErrCommitTwice]
    ELSE IF ~h.batches[b].hasChildren
    THEN [h EXCEPT !.batches[b].next = 0, !.batches[b].defer = FALSE]
    ELSE IF first = b
    THEN CommitFlushAndPop(h, b, h.batches[b].expirationTime)
    ELSE LET expirationTime == h.batches[first].expirationTime
             h1 == ReactBatch_render(
                       Write([h EXCEPT !.batches[b].expirationTime = expirationTime],
                             "_expirationTime", expirationTime),
                       b, h.batches[b].children)
             previous == FindPrevious(h1.batches, 0, first, b)
         IN IF h1.err # OK THEN h1
            ELSE IF previous = -1 THEN [h1 EXCEPT !.err = ErrTypeError]
            ELSE IF previous = 0 THEN [h1 EXCEPT !.err = ErrCommitTwice]
            ELSE CommitFlushAndPop(
                     Write([h1 EXCEPT !.batches[previous].next = h1.batches[b].next,
                                      !.batches[b].next = first,
                                      !.firstBatch = b],
                           "firstBatch", b),
                     b, expirationTime)

\* -------------------------------------------------------------- ReactRoot
\* variant: the loop of createBatch stops at the first batch of equal time
RECURSIVE InsertionPoint_Strict(_, _, _, _)
InsertionPoint_Strict(bs, insertAfter, insertBefore, expirationTime) ==
    IF insertBefore # 0 /\ bs[insertBefore].expirationTime > expirationTime
    THEN InsertionPoint_Strict(bs, insertBefore, bs[insertBefore].next, expirationTime)
    ELSE <<insertAfter, insertBefore>>

\* the loop of createBatch:
\*   while (insertBefore !== null && insertBefore._expirationTime >= expirationTime)
\* returns <<insertAfter, insertBefore>>
RECURSIVE InsertionPoint(_, _, _, _)
InsertionPoint(bs, insertAfter, insertBefore, expirationTime) ==
    IF insertBefore # 0 /\ bs[insertBefore].expirationTime >= expirationTime
    THEN InsertionPoint(bs, insertBefore, bs[insertBefore].next, expirationTime)
    ELSE <<insertAfter, insertBefore>>

ReactRoot_createBatch(h, expirationTime) ==
    LET h1 == [h EXCEPT !.batches = Append(@, ReactBatch(expirationTime))]
        batch == Len(h1.batches)
        first == h.firstBatch
    IN IF first = 0 THEN [h1 EXCEPT !.firstBatch = batch]
       ELSE LET p == InsertionPoint(h.batches, 0, first, expirationTime)
                h2 == [h1 EXCEPT !.batches[batch].next = p[2]]
            IN IF p[1] # 0 THEN [h2 EXCEPT !.batches[p[1]].next = batch]
               ELSE h2

\* variant: render drops the callback instead of registering it
ReactRoot_render_NoThen(h, children, cb, expirationTime) ==
    LET h1 == [h EXCEPT !.works = Append(@, ReactWork)]
    IN updateContainerAtExpirationTime(h1, children, expirationTime, Len(h1.works))

\* root.render(children, callback); cb = "none" is the absent callback; the
\* expiration time of the update is the scheduler's choice
ReactRoot_render(h, children, cb, expirationTime) ==
    LET h1 == [h EXCEPT !.works = Append(@, ReactWork)]
        work == Len(h1.works)
        h2 == IF cb # "none"
              THEN [ReactWork_then(h1, work, cb, "render")
                       EXCEPT !.steps = Append(@, Step("then", 0, "null"))]
              ELSE h1
    IN IF h2.err # OK THEN h2
       ELSE updateContainerAtExpirationTime(h2, children, expirationTime, work)

\* ------------------------------------------------- the legacy entry points
\* the expiration time of the updates of a legacy (synchronous) root: it comes
\* before every time the scheduler hands out
Sync == 1 + CHOOSE e \in ExpTimes : \A x \in ExpTimes : x <= e

\* the functions the callbacks invoked since h0 stand for have run: the
\* function unmountComponentAtNode passes resets container._reactRootContainer
CallbackEffects(h0, h1) ==
    IF \E i \in (Len(h0.log) + 1)..Len(h1.log) : h1.regs[h1.log[i]].via = "unmount"
    THEN [h1 EXCEPT !.reactRootContainer = 0]
    ELSE h1

\* the commit notifications of the works ws, in order, up to the first throw
RECURSIVE NotifyCommitted(_, _)
NotifyCommitted(h, ws) ==
    IF ws = <<>> \/ h.err # OK THEN h
    ELSE NotifyCommitted(CallbackEffects(h, ReactWork_onCommit(h, Head(ws))),
                         Tail(ws))

\* the synchronous work of the root is performed: its updates are committed
\* and the works committed by it are notified, in enqueue order
performSyncWork(h) ==
    LET h1 == flushRoot(h, Sync)
        done == SelectSeq(h.updateQueue, LAMBDA u : u.expirationTime >= Sync)
    IN NotifyCommitted(h1, [i \in 1..Len(done) |-> done[i].work])

\* an update was scheduled on a legacy root: inside batchedUpdates it waits
\* for the end of the batch unless the caller is inside unbatchedUpdates
requestWork(h, unbatched) ==
    IF h.isBatchingUpdates /\ ~unbatched THEN h ELSE performSyncWork(h)

\* new ReactRoot(container, false, shouldHydrate): a fresh internal root
legacyCreateRootFromDOMContainer(h) ==
    [h EXCEPT !.rootsCreated = @ + 1,
              !.firstBatch = 0,
              !.updateQueue = <<>>,
              !.rootChildren = "null"]

\* variant: every call makes a new Root for the container
legacyRenderSubtreeIntoContainer_AlwaysNew(h, children, callback, clears, unbatched) ==
    LET h0 == legacyCreateRootFromDOMContainer(h)
        h1 == Write([h0 EXCEPT !.reactRootContainer = h0.rootsCreated],
                    "_reactRootContainer", h0.rootsCreated)
        h2 == ReactRoot_render(h1, children, callback, Sync)
        h3 == IF clears THEN [h2 EXCEPT !.regs[Len(h2.regs)].via = "unmount"]
              ELSE h2
    IN IF h3.err # OK THEN h3 ELSE requestWork(h3, TRUE)

\* legacyRenderSubtreeIntoContainer(parentComponent, children, container,
\* forceHydrate, callback); clears: the callback is the function of
\* unmountComponentAtNode; unbatched: the caller is inside unbatchedUpdates
legacyRenderSubtreeIntoContainer(h, children, callback, clears, unbatched) ==
    LET initial == h.reactRootContainer = 0
        h0 == legacyCreateRootFromDOMContainer(h)
        h1 == IF initial
              THEN Write([h0 EXCEPT !.reactRootContainer = h0.rootsCreated],
                         "_reactRootContainer", h0.rootsCreated)
              ELSE h
        h2 == ReactRoot_render(h1, children, callback, Sync)
        h3 == IF clears THEN [h2 EXCEPT !.regs[Len(h2.regs)].via = "unmount"]
              ELSE h2
    IN IF h3.err # OK THEN h3 ELSE requestWork(h3, initial \/ unbatched)

\* variant: the unmount is not wrapped in unbatchedUpdates
unmountComponentAtNode_Batched(h, valid) ==
    IF ~valid THEN [h EXCEPT !.err = ErrUnmountNotContainer]
    ELSE IF h.reactRootContainer # 0
    THEN legacyRenderSubtreeIntoContainer(h, "null", "fn", TRUE, FALSE)
    ELSE h

\* ReactDOM.unmountComponentAtNode(container)
unmountComponentAtNode(h, valid) ==
    IF ~valid THEN [h EXCEPT !.err = ErrUnmountNotContainer]
    ELSE IF h.reactRootContainer # 0
    THEN legacyRenderSubtreeIntoContainer(h, "null", "fn", TRUE, TRUE)
    ELSE h

\* ReactDOM.render / ReactDOM.hydrate (forceHydrate)
ReactDOM_render(h, valid, children, callback) ==
    IF ~valid THEN [h EXCEPT !.err = ErrNotContainer]
    ELSE legacyRenderSubtreeIntoContainer(h, children, callback, FALSE, FALSE)

\* ReactDOM.unstable_renderSubtreeIntoContainer
unstable_renderSubtreeIntoContainer(h, parentComponent, valid, children, callback) ==
    IF ~valid THEN [h EXCEPT !.err = ErrNotContainer]
    ELSE IF parentComponent = "null" THEN [h EXCEPT !.err = ErrParentComponent]
    ELSE legacyRenderSubtreeIntoContainer(h, children, callback, FALSE, FALSE)

\* ------------------------------------------------- fiber tree reflection
\* work tags (shared/ReactWorkTags.js)
ClassComponent == 1
HostRoot == 3
HostPortal == 4
HostComponent == 5
HostText == 6

\* mount status
MOUNTING == 1
MOUNTED == 2
UNMOUNTED == 3

ErrUnmounted == "Unable to find node on an unmounted component."
ErrChildNotFound == "Child was not found in either parent set."
ErrReturnAlternates == "Return fibers should always be each others' alternates."

\* a fiber; references are fiber identities, 0 is null; effectTag is the set
\* of the effect bits that are set
Fiber(tag, return, child, sibling, alternate, effectTag) ==
    [tag |-> tag, return |-> return, child |-> child, sibling |-> sibling,
     alternate |-> alternate, effectTag |-> effectTag]

\* variant: the Placement effect of a fiber that has an alternate is ignored
RECURSIVE ClimbCheckingPlacement_OnlyNew(_, _)
ClimbCheckingPlacement_OnlyNew(fs, node) ==
    IF "Placement" \in fs[node].effectTag /\ fs[node].alternate = 0 THEN 0
    ELSE IF fs[node].return # 0
    THEN ClimbCheckingPlacement_OnlyNew(fs, fs[node].return)
    ELSE node

\* the walk of isFiberMountedImpl for a fiber without alternate: 0 when the
\* node or an ancestor carries Placement, else the top of the return chain
RECURSIVE ClimbCheckingPlacement(_, _)
ClimbCheckingPlacement(fs, node) ==
    IF "Placement" \in fs[node].effectTag THEN 0
    ELSE IF fs[node].return # 0 THEN ClimbCheckingPlacement(fs, fs[node].return)
    ELSE node

\* variant: the walk to the top stops at a fiber that carries Placement
RECURSIVE Climb_StopAtPlaced(_, _)
Climb_StopAtPlaced(fs, node) ==
    IF fs[node].return # 0 /\ "Placement" \notin fs[node].effectTag
    THEN Climb_StopAtPlaced(fs, fs[node].return)
    ELSE node

\* while (node.return) node = node.return
RECURSIVE Climb(_, _)
Climb(fs, node) ==
    IF fs[node].return # 0 THEN Climb(fs, fs[node].return) ELSE node

\* variant: the Placement scan is made for every fiber
isFiberMountedImpl_AlwaysScan(fs, fiber) ==
    LET node == ClimbCheckingPlacement(fs, fiber)
    IN IF node = 0 THEN MOUNTING
       ELSE IF fs[node].tag = HostRoot THEN MOUNTED
       ELSE UNMOUNTED

isFiberMountedImpl(fs, fiber) ==
    LET node == IF fs[fiber].alternate = 0
                THEN ClimbCheckingPlacement(fs, fiber)
                ELSE Climb(fs, fiber)
    IN IF node = 0 THEN MOUNTING
       ELSE IF fs[node].tag = HostRoot THEN MOUNTED
       ELSE UNMOUNTED

isFiberMounted(fs, fiber) == isFiberMountedImpl(fs, fiber) = MOUNTED

\* what a call returns (value; 0 is null) or throws (err)
Returns(value) == [err |-> OK, value |-> value]

Throws(err) == [err |-> err, value |-> 0]

\* the scan of a child list for a or b: "a", "b" or "none"
RECURSIVE ScanChildren(_, _, _, _)
ScanChildren(fs, child, a, b) ==
    IF child = 0 THEN "none"
    ELSE IF child = a THEN "a"
    ELSE IF child = b THEN "b"
    ELSE ScanChildren(fs, fs[child].sibling, a, b)

\* the next <<a, b>> of the loop of findCurrentFiberUsingSlowPath when the
\* child sets of the parents differ; <<0, 0>> when the child is in neither
NextPair(fs, a, b, parentA, parentB) ==
    IF fs[a].return # fs[b].return THEN <<parentA, parentB>>
    ELSE LET inA == ScanChildren(fs, fs[parentA].child, a, b)
             inB == ScanChildren(fs, fs[parentB].child, a, b)
         IN IF inA = "a" THEN <<parentA, parentB>>
            ELSE IF inA = "b" THEN <<parentB, parentA>>
            ELSE IF inB = "a" THEN <<parentB, parentA>>
            ELSE IF inB = "b" THEN <<parentA, parentB>>
            ELSE <<0, 0>>

\* variant: the walk ends by returning the fiber whatever root.current is
RECURSIVE SlowPathLoop_IgnoreCurrent(_, _, _, _, _, _)
SlowPathLoop_IgnoreCurrent(fs, cur, fiber, alternate, a, b) ==
    LET parentA == fs[a].return
        parentB == IF parentA # 0 THEN fs[parentA].alternate ELSE 0
    IN IF parentA = 0 \/ parentB = 0
       THEN IF fs[a].tag # HostRoot THEN Throws(ErrUnmounted)
            ELSE Returns(fiber)
       ELSE IF fs[parentA].child = fs[parentB].child
       THEN LET found == ScanChildren(fs, fs[parentA].child, a, b)
            IN IF found = "none" THEN Throws(ErrUnmounted)
               ELSE IF isFiberMountedImpl(fs, parentA) # MOUNTED
               THEN Throws(ErrUnmounted)
               ELSE IF found = "a" THEN Returns(fiber) ELSE Returns(alternate)
       ELSE LET next == NextPair(fs, a, b, parentA, parentB)
            IN IF next = <<0, 0>> THEN Throws(ErrChildNotFound)
               ELSE IF fs[next[1]].alternate # next[2]
               THEN Throws(ErrReturnAlternates)
               ELSE SlowPathLoop_IgnoreCurrent(fs, cur, fiber, alternate,
                                               next[1], next[2])

\* variant: a child that is in neither version of a shared child list is
\* reported as a broken return pointer
RECURSIVE SlowPathLoop_MissIsCorruption(_, _, _, _, _, _)
SlowPathLoop_MissIsCorruption(fs, cur, fiber, alternate, a, b) ==
    LET parentA == fs[a].return
        parentB == IF parentA # 0 THEN fs[parentA].alternate ELSE 0
    IN IF parentA = 0 \/ parentB = 0
       THEN IF fs[a].tag # HostRoot THEN Throws(ErrUnmounted)
            ELSE IF cur = a THEN Returns(fiber)
            ELSE Returns(alternate)
       ELSE IF fs[parentA].child = fs[parentB].child
       THEN LET found == ScanChildren(fs, fs[parentA].child, a, b)
            IN IF found = "none" THEN Throws(ErrChildNotFound)
               ELSE IF isFiberMountedImpl(fs, parentA) # MOUNTED
               THEN Throws(ErrUnmounted)
               ELSE IF found = "a" THEN Returns(fiber) ELSE Returns(alternate)
       ELSE LET next == NextPair(fs, a, b, parentA, parentB)
            IN IF next = <<0, 0>> THEN Throws(ErrChildNotFound)
               ELSE IF fs[next[1]].alternate # next[2]
               THEN Throws(ErrReturnAlternates)
               ELSE SlowPathLoop_MissIsCorruption(fs, cur, fiber, alternate,
                                                  next[1], next[2])

\* the while (true) loop of findCurrentFiberUsingSlowPath and what follows it
RECURSIVE SlowPathLoop(_, _, _, _, _, _)
SlowPathLoop(fs, cur, fiber, alternate, a, b) ==
    LET parentA == fs[a].return
        parentB == IF parentA # 0 THEN fs[parentA].alternate ELSE 0
    IN IF parentA = 0 \/ parentB = 0
       THEN IF fs[a].tag # HostRoot THEN Throws(ErrUnmounted)
            ELSE IF cur = a THEN Returns(fiber)
            ELSE Returns(alternate)
       ELSE IF fs[parentA].child = fs[parentB].child
       THEN LET found == ScanChildren(fs, fs[parentA].child, a, b)
            IN IF found = "none" THEN Throws(ErrUnmounted)
               ELSE IF isFiberMountedImpl(fs, parentA) # MOUNTED
               THEN Throws(ErrUnmounted)
               ELSE IF found = "a" THEN Returns(fiber) ELSE Returns(alternate)
       ELSE LET next == NextPair(fs, a, b, parentA, parentB)
            IN IF next = <<0, 0>> THEN Throws(ErrChildNotFound)
               ELSE IF fs[next[1]].alternate # next[2]
               THEN Throws(ErrReturnAlternates)
               ELSE SlowPathLoop(fs, cur, fiber, alternate, next[1], next[2])

\* variant: a fiber without alternate is returned without the mount check
findCurrentFiberUsingSlowPath_NoMountCheck(fs, cur, fiber) ==
    LET alternate == fs[fiber].alternate
    IN IF alternate = 0
       THEN Returns(fiber)
       ELSE SlowPathLoop(fs, cur, fiber, alternate, fiber, alternate)

\* variant: a fiber without alternate has to be MOUNTED, as a parent has
findCurrentFiberUsingSlowPath_AssertMounted(fs, cur, fiber) ==
    LET alternate == fs[fiber].alternate
    IN IF alternate = 0
       THEN IF isFiberMountedImpl(fs, fiber) # MOUNTED THEN Throws(ErrUnmounted)
            ELSE Returns(fiber)
       ELSE SlowPathLoop(fs, cur, fiber, alternate, fiber, alternate)

findCurrentFiberUsingSlowPath(fs, cur, fiber) ==
    LET alternate == fs[fiber].alternate
    IN IF alternate = 0
       THEN LET state == isFiberMountedImpl(fs, fiber)
            IN IF state = UNMOUNTED THEN Throws(ErrUnmounted)
               ELSE IF state = MOUNTING THEN Returns(0)
               ELSE Returns(fiber)
       ELSE SlowPathLoop(fs, cur, fiber, alternate, fiber, alternate)

\* what a lookup that writes return pointers returns or throws, and the
\* fibers it leaves
Found(err, value, fs) == [err |-> err, value |-> value, fibers |-> fs]

\* the inner loop of the lookup, while (!node.sibling): the node whose
\* sibling comes next, 0 when the walk is over
RECURSIVE ClimbToSibling(_, _, _)
ClimbToSibling(fs, currentParent, node) ==
    IF fs[node].sibling # 0 THEN node
    ELSE IF fs[node].return = 0 \/ fs[node].return = currentParent THEN 0
    ELSE ClimbToSibling(fs, currentParent, fs[node].return)

\* variant: the walk goes down into a HostPortal as into any other fiber
RECURSIVE HostWalk_ThroughPortals(_, _, _, _)
HostWalk_ThroughPortals(fs, currentParent, node, noPortals) ==
    IF fs[node].tag = HostComponent \/ fs[node].tag = HostText
    THEN Found(OK, node, fs)
    ELSE IF fs[node].child # 0
    THEN HostWalk_ThroughPortals([fs EXCEPT ![fs[node].child].return = node],
                                 currentParent, fs[node].child, noPortals)
    ELSE IF node = currentParent THEN Found(OK, 0, fs)
    ELSE LET from == ClimbToSibling(fs, currentParent, node)
         IN IF from = 0 THEN Found(OK, 0, fs)
            ELSE HostWalk_ThroughPortals(
                     [fs EXCEPT ![fs[from].sibling].return = fs[from].return],
                     currentParent, fs[from].sibling, noPortals)

\* variant: a fiber without child is not compared with the fiber the walk
\* started from
RECURSIVE HostWalk_NoParentCheck(_, _, _, _)
HostWalk_NoParentCheck(fs, currentParent, node, noPortals) ==
    IF fs[node].tag = HostComponent \/ fs[node].tag = HostText
    THEN Found(OK, node, fs)
    ELSE IF fs[node].child # 0 /\ ~(noPortals /\ fs[node].tag = HostPortal)
    THEN HostWalk_NoParentCheck([fs EXCEPT ![fs[node].child].return = node],
                                currentParent, fs[node].child, noPortals)
    ELSE LET from == ClimbToSibling(fs, currentParent, node)
         IN IF from = 0 THEN Found(OK, 0, fs)
            ELSE HostWalk_NoParentCheck(
                     [fs EXCEPT ![fs[from].sibling].return = fs[from].return],
                     currentParent, fs[from].sibling, noPortals)

\* variant: a child is given the fiber the walk started from as its return
\* pointer
RECURSIVE HostWalk_ChildReturnsStart(_, _, _, _)
HostWalk_ChildReturnsStart(fs, currentParent, node, noPortals) ==
    IF fs[node].tag = HostComponent \/ fs[node].tag = HostText
    THEN Found(OK, node, fs)
    ELSE IF fs[node].child # 0 /\ ~(noPortals /\ fs[node].tag = HostPortal)
    THEN HostWalk_ChildReturnsStart(
             [fs EXCEPT ![fs[node].child].return = currentParent],
             currentParent, fs[node].child, noPortals)
    ELSE IF node = currentParent THEN Found(OK, 0, fs)
    ELSE LET from == ClimbToSibling(fs, currentParent, node)
         IN IF from = 0 THEN Found(OK, 0, fs)
            ELSE HostWalk_ChildReturnsStart(
                     [fs EXCEPT ![fs[from].sibling].return = fs[from].return],
                     currentParent, fs[from].sibling, noPortals)

\* the while (true) loop of findCurrentHostFiber (noPortals = FALSE) and of
\* findCurrentHostFiberWithNoPortals (noPortals = TRUE), from node on
RECURSIVE HostWalk(_, _, _, _)
HostWalk(fs, currentParent, node, noPortals) ==
    IF fs[node].tag = HostComponent \/ fs[node].tag = HostText
    THEN Found(OK, node, fs)
    ELSE IF fs[node].child # 0 /\ ~(noPortals /\ fs[node].tag = HostPortal)
    THEN HostWalk([fs EXCEPT ![fs[node].child].return = node],
                  currentParent, fs[node].child, noPortals)
    ELSE IF node = currentParent THEN Found(OK, 0, fs)
    ELSE LET from == ClimbToSibling(fs, currentParent, node)
         IN IF from = 0 THEN Found(OK, 0, fs)
            ELSE HostWalk([fs EXCEPT ![fs[from].sibling].return = fs[from].return],
                          currentParent, fs[from].sibling, noPortals)

\* variant: the lookup starts at the fiber it was given
findCurrentHostFiber_FromGiven(fs, cur, parent) ==
    HostWalk(fs, parent, parent, FALSE)

findCurrentHostFiber(fs, cur, parent) ==
    LET currentParent == findCurrentFiberUsingSlowPath(fs, cur, parent)
    IN IF currentParent.err # OK THEN Found(currentParent.err, 0, fs)
       ELSE IF currentParent.value = 0 THEN Found(OK, 0, fs)
       ELSE HostWalk(fs, currentParent.value, currentParent.value, FALSE)

findCurrentHostFiberWithNoPortals(fs, cur, parent) ==
    LET currentParent == findCurrentFiberUsingSlowPath(fs, cur, parent)
    IN IF currentParent.err # OK THEN Found(currentParent.err, 0, fs)
       ELSE IF currentParent.value = 0 THEN Found(OK, 0, fs)
       ELSE HostWalk(fs, currentParent.value, currentParent.value, TRUE)

\* ------------------------------------- findCurrentHostFiber, step by step
\* the locals of a call of findCurrentHostFiber(fiber): pc is where the
\* call is ("ancestors": the while loop of findCurrentFiberUsingSlowPath,
\* "descend": the outer loop of findCurrentHostFiber, "climb": its inner
\* loop, "done": returned or thrown), from the forest the call found,
\* climbed whether the inner loop has followed a return pointer
Idle ==
    [pc |-> "idle", fiber |-> 0, a |-> 0, b |-> 0, currentParent |-> 0,
     node |-> 0, err |-> OK, value |-> 0, climbed |-> FALSE, from |-> <<>>]

\* the call returns value or throws err
Done(w, err, value) == [w EXCEPT !.pc = "done", !.err = err, !.value = value]

\* findCurrentFiberUsingSlowPath has returned currentParent
Resolved(w, currentParent) ==
    [w EXCEPT !.pc = "descend", !.currentParent = currentParent,
              !.node = currentParent]

\* the call, up to the first test of a loop
WalkStart(fs, cur, fiber) ==
    LET w == [Idle EXCEPT !.fiber = fiber, !.from = fs]
        state == isFiberMountedImpl(fs, fiber)
    IN IF fs[fiber].alternate = 0
       THEN IF state = UNMOUNTED THEN Done(w, ErrUnmounted, 0)
            ELSE IF state = MOUNTING THEN Done(w, OK, 0)
            ELSE Resolved(w, fiber)
       ELSE [w EXCEPT !.pc = "ancestors", !.a = fiber, !.b = fs[fiber].alternate]

\* one turn of the while (true) loop of findCurrentFiberUsingSlowPath
AncestorStep(fs, cur, w) ==
    LET a == w.a
        b == w.b
        alternate == fs[w.fiber].alternate
        parentA == fs[a].return
        parentB == IF parentA # 0 THEN fs[parentA].alternate ELSE 0
    IN IF parentA = 0 \/ parentB = 0
       THEN IF fs[a].tag # HostRoot THEN Done(w, ErrUnmounted, 0)
            ELSE Resolved(w, IF cur = a THEN w.fiber ELSE alternate)
       ELSE IF fs[parentA].child = fs[parentB].child
       THEN LET found == ScanChildren(fs, fs[parentA].child, a, b)
            IN IF found = "none" THEN Done(w, ErrUnmounted, 0)
               ELSE IF isFiberMountedImpl(fs, parentA) # MOUNTED
               THEN Done(w, ErrUnmounted, 0)
               ELSE Resolved(w, IF found = "a" THEN w.fiber ELSE alternate)
       ELSE LET next == NextPair(fs, a, b, parentA, parentB)
            IN IF next = <<0, 0>> THEN Done(w, ErrChildNotFound, 0)
               ELSE IF fs[next[1]].alternate # next[2]
               THEN Done(w, ErrReturnAlternates, 0)
               ELSE [w EXCEPT !.a = next[1], !.b = next[2]]

\* the fibers and the locals a step leaves
Stepped(fs, w) == [fibers |-> fs, walk |-> w]

\* one turn of the outer loop of findCurrentHostFiber, up to its inner loop
DescendStep(fs, w) ==
    LET node == w.node
    IN IF fs[node].tag = HostComponent \/ fs[node].tag = HostText
       THEN Stepped(fs, Done(w, OK, node))
       ELSE IF fs[node].child # 0
       THEN Stepped([fs EXCEPT ![fs[node].child].return = node],
                    [w EXCEPT !.node = fs[node].child])
       ELSE IF node = w.currentParent THEN Stepped(fs, Done(w, OK, 0))
       ELSE Stepped(fs, [w EXCEPT !.pc = "climb"])

\* variant: the next sibling is given the node as its return pointer
ClimbStep_SiblingReturnsNode(fs, w) ==
    LET node == w.node
    IN IF fs[node].sibling = 0
       THEN IF fs[node].return = 0 \/ fs[node].return = w.currentParent
            THEN Stepped(fs, Done(w, OK, 0))
            ELSE Stepped(fs, [w EXCEPT !.node = fs[node].return, !.climbed = TRUE])
       ELSE Stepped([fs EXCEPT ![fs[node].sibling].return = node],
                    [w EXCEPT !.pc = "descend", !.node = fs[node].sibling])

\* one turn of the inner loop, while (!node.sibling), or the two
\* assignments that follow it
ClimbStep(fs, w) ==
    LET node == w.node
    IN IF fs[node].sibling = 0
       THEN IF fs[node].return = 0 \/ fs[node].return = w.currentParent
            THEN Stepped(fs, Done(w, OK, 0))
            ELSE Stepped(fs, [w EXCEPT !.node = fs[node].return, !.climbed = TRUE])
       ELSE Stepped([fs EXCEPT ![fs[node].sibling].return = fs[node].return],
                    [w EXCEPT !.pc = "descend", !.node = fs[node].sibling])

\* --------------------------------------------------------- state machine
\* no root object, no handle and no call yet
NoHandles ==
    /\ batches = <<>>
    /\ firstBatch = 0
    /\ works = <<>>
    /\ updateQueue = <<>>
    /\ committedWorks = {}
    /\ rootChildren = "null"
    /\ regs = <<>>
    /\ log = <<>>
    /\ lastOp = [op |-> "init", target |-> 0, arg |-> <<>>, err |-> OK, steps |-> <<>>,
                 writes |-> <<>>, result |-> 0]
    /\ calls = 0
    /\ reactRootContainer = 0
    /\ rootsCreated = 0
    /\ isBatchingUpdates = FALSE
    /\ walk = Idle

Init ==
    /\ NoHandles
    /\ fibers = <<>>
    /\ current = 0

\* a handler ran on target with the inputs arg and left the heap h
Ran(op, target, arg, h) ==
    /\ calls < MaxCalls
    /\ calls' = calls + 1
    /\ Len(h.batches) <= MaxBatches
    /\ Len(h.works) <= MaxWorks
    /\ Len(h.regs) <= MaxRegs
    /\ batches' = h.batches
    /\ firstBatch' = h.firstBatch
    /\ works' = h.works
    /\ updateQueue' = h.updateQueue
    /\ committedWorks' = h.committedWorks
    /\ rootChildren' = h.rootChildren
    /\ regs' = h.regs
    /\ log' = h.log
    /\ reactRootContainer' = h.reactRootContainer
    /\ rootsCreated' = h.rootsCreated
    /\ isBatchingUpdates' = h.isBatchingUpdates
    /\ lastOp' = [op |-> op, target |-> target, arg |-> arg, err |-> h.err,
                  steps |-> h.steps, writes |-> h.writes, result |-> 0]
    /\ UNCHANGED <<fibers, current, walk>>

CreateBatch ==
    \E e \in ExpTimes : Ran("createBatch", Len(batches) + 1, <<e>>,
            ReactRoot_createBatch(Heap, e))

BatchRender ==
    \E b \in 1..Len(batches), c \in ChildrenSet :
        Ran("batch.render", b, <<c>>, ReactBatch_render(Heap, b, c))

BatchThen ==
    \E b \in 1..Len(batches), k \in CbKinds :
        Ran("batch.then", b, <<k>>, ReactBatch_then(Heap, b, k))

BatchCommit ==
    \E b \in 1..Len(batches) :
        Ran("batch.commit", b, <<>>, ReactBatch_commit(Heap, b))

\* the scheduler tells a batch that its work completed; it may tell it again
BatchOnComplete ==
    \E b \in 1..Len(batches) :
        Ran("batch._onComplete", b, <<>>, ReactBatch_onComplete(Heap, b))

RootRender ==
    \E c \in ChildrenSet, cb \in CbKinds \cup {"none"}, e \in ExpTimes :
        Ran("root.render", Len(works) + 1, <<c, cb, e>>,
            ReactRoot_render(Heap, c, cb, e))

WorkThen ==
    \E w \in 1..Len(works), k \in CbKinds :
        Ran("work.then", w, <<k>>, ReactWork_then(Heap, w, k, "then"))

\* the scheduler, on its own, flushes the root up to some expiration time
SchedulerFlush ==
    \E e \in ExpTimes :
        Ran("flush", 0, <<e>>, flushRoot(Heap, e))

\* the commit notification of a committed update arrives; it may arrive again
WorkOnCommit ==
    \E w \in committedWorks :
        Ran("work._onCommit", w, <<>>, ReactWork_onCommit(Heap, w))

\* the batch list of one root: creation, render, commit and the scheduler
NextBatch ==
    \/ CreateBatch
    \/ BatchRender
    \/ BatchCommit
    \/ SchedulerFlush

SpecBatch == Init /\ [][NextBatch]_vars

\* the completion contract of the handles: root.render, then() and the
\* notifications, on the works of one root and on one batch
HandleCreateBatch == batches = <<>> /\ CreateBatch

HandleRootRender == Len(works) < MaxRenders /\ RootRender

NextHandles ==
    \/ HandleRootRender
    \/ WorkThen
    \/ SchedulerFlush
    \/ WorkOnCommit
    \/ HandleCreateBatch
    \/ BatchThen
    \/ BatchOnComplete

SpecHandles == Init /\ [][NextHandles]_vars

\* the legacy API on one container; valid = FALSE is a call whose target is
\* not a DOM container
LegacyCallbacks == {"none", "fn", "notfn"}

LegacyRender ==
    \E c \in ChildrenSet, cb \in LegacyCallbacks, valid \in BOOLEAN :
        Ran("render", 0, <<c, cb, valid>>, ReactDOM_render(Heap, valid, c, cb))

LegacyHydrate ==
    \E c \in ChildrenSet, cb \in LegacyCallbacks :
        Ran("hydrate", 0, <<c, cb, TRUE>>, ReactDOM_render(Heap, TRUE, c, cb))

LegacyRenderSubtree ==
    \E parent \in {"P", "null"}, c \in ChildrenSet, cb \in LegacyCallbacks :
        Ran("unstable_renderSubtreeIntoContainer", 0, <<c, cb, parent>>,
            unstable_renderSubtreeIntoContainer(Heap, parent, TRUE, c, cb))

LegacyUnmount ==
    \E valid \in BOOLEAN :
        Ran("unmountComponentAtNode", 0, <<valid>>,
            unmountComponentAtNode(Heap, valid))

\* the caller enters batchedUpdates
BatchedUpdatesEnter ==
    /\ ~isBatchingUpdates
    /\ Ran("batchedUpdates", 0, <<"enter">>,
           [Heap EXCEPT !.isBatchingUpdates = TRUE])

\* the caller leaves batchedUpdates: the synchronous work is performed
BatchedUpdatesExit ==
    /\ isBatchingUpdates
    /\ Ran("batchedUpdates", 0, <<"exit">>,
           performSyncWork([Heap EXCEPT !.isBatchingUpdates = FALSE]))

NextLegacy ==
    \/ LegacyRender
    \/ LegacyHydrate
    \/ LegacyRenderSubtree
    \/ LegacyUnmount
    \/ BatchedUpdatesEnter
    \/ BatchedUpdatesExit

SpecLegacy == Init /\ [][NextLegacy]_vars

\* ----------------------------------------------------- the fiber forests
\* A forest is drawn from its instances 1..n (instance 1 on top, par[i] < i
\* the parent of i, siblings in increasing order) and from what each instance
\* is made of:
\*   "AB"  two fibers, alternates, a in the child list of the parent's a,
\*         b in the child list of the parent's b
\*   "A"   fiber a alone, in the child list of the parent's a
\*   "B"   fiber b alone, in the child list of the parent's b
\*   "S"   fiber a alone, in the one child list both parents point to
\*   "SO"  fiber a in the one child list both parents point to, and its
\*         alternate b, left over from an earlier render, in no child list
\*   "O"   two fibers, alternates, of a child that was deleted: both are in
\*         no child list and still point to their version of the parent
\*         (drawn by InitDeleted only)
\* A suffix tells whose return pointer points to the other version of the
\* parent: sa (a's), sb (b's), sab (both).  Return pointers that cross each
\* other (a to the parent's b and b to the parent's a, both in their own
\* child list) are left out: findCurrentFiberUsingSlowPath assumes them away.
Configs ==
    {"AB", "ABsa", "ABsb", "A", "B", "S", "Ssa",
     "SO", "SOsa", "SOsb", "SOsab"}

Mode(c) ==
    IF c \in {"AB", "ABsa", "ABsb"} THEN "AB"
    ELSE IF c \in {"S", "Ssa"} THEN "S"
    ELSE IF c \in {"SO", "SOsa", "SOsb", "SOsab"} THEN "SO"
    ELSE c

StaleA(c) == c \in {"ABsa", "Ssa", "SOsa", "SOsab"}

StaleB(c) == c \in {"ABsb", "SOsb", "SOsab"}

HasA(c) == Mode(c) # "B"

HasB(c) == Mode(c) \in {"AB", "B", "SO", "O"}

IsPair(c) == Mode(c) \in {"AB", "SO", "O"}

InSharedList(c) == Mode(c) \in {"S", "SO"}

\* the fibers of the instance are in child lists
Listed(c) == Mode(c) # "O"

FiberA(i) == 2 * i - 1

FiberB(i) == 2 * i

Parents(n) == {par \in [2..n -> 1..n] : \A i \in 2..n : par[i] < i}

\* the top is a pair or a single fiber; the children of a single fiber are
\* single fibers of its version; the children of a pair are either all in
\* one shared child list or all in the lists of their versions; a deleted
\* pair had a pair as its parent and its own children are pairs
Consistent(n, par, cfg) ==
    /\ cfg[1] \in {"AB", "A"}
    /\ \A i \in 2..n :
          LET p == cfg[par[i]]
          IN /\ Mode(p) \in {"A", "S"} => cfg[i] = "A"
             /\ Mode(p) = "B" => cfg[i] = "B"
             /\ Mode(p) = "O" => Mode(cfg[i]) = "AB"
             /\ Mode(cfg[i]) = "O" => IsPair(p)
             /\ \A j \in 2..n :
                    (par[j] = par[i] /\ Listed(cfg[i]) /\ Listed(cfg[j]))
                        => InSharedList(cfg[j]) = InSharedList(cfg[i])

\* the members of a set of numbers in increasing order
RECURSIVE Ascending(_)
Ascending(S) ==
    IF S = {} THEN <<>>
    ELSE LET m == CHOOSE x \in S : \A y \in S : x <= y
         IN <<m>> \o Ascending(S \ {m})

\* the element after x in a sequence without repetition, 0 after the last
After(list, x) ==
    IF \E k \in 1..(Len(list) - 1) : list[k] = x
    THEN list[(CHOOSE k \in 1..(Len(list) - 1) : list[k] = x) + 1]
    ELSE 0

\* the child list of fiber a (side = "a") or b of instance p
ChildList(n, par, cfg, p, side) ==
    LET kids == {i \in 2..n : par[i] = p}
        shared == \E i \in kids : InSharedList(cfg[i])
    IN IF side = "a" \/ shared
       THEN [k \in 1..Cardinality({i \in kids : HasA(cfg[i]) /\ Listed(cfg[i])}) |->
                FiberA(Ascending({i \in kids : HasA(cfg[i]) /\ Listed(cfg[i])})[k])]
       ELSE [k \in 1..Cardinality({i \in kids : Mode(cfg[i]) \in {"AB", "B"}}) |->
                FiberB(Ascending({i \in kids : Mode(cfg[i]) \in {"AB", "B"}})[k])]

FirstOf(list) == IF list = <<>> THEN 0 ELSE list[1]

\* the forest: tagOf[i] is the tag of instance i, placed the fiber carrying
\* the Placement effect (0 = none)
Forest(n, par, cfg, tagOf, placed) ==
    LET ids == {FiberA(i) : i \in {j \in 1..n : HasA(cfg[j])}}
               \cup {FiberB(i) : i \in {j \in 1..n : HasB(cfg[j])}}
        inst(f) == (f + 1) \div 2
        isA(f) == f % 2 = 1
        parentOf(f) ==
            LET i == inst(f)
            IN IF i = 1 THEN 0
               ELSE IF isA(f)
                    THEN (IF StaleA(cfg[i]) THEN FiberB(par[i]) ELSE FiberA(par[i]))
                    ELSE (IF StaleB(cfg[i]) THEN FiberA(par[i]) ELSE FiberB(par[i]))
        siblingOf(f) ==
            LET i == inst(f)
            IN IF i = 1 \/ (~isA(f) /\ Mode(cfg[i]) = "SO") \/ Mode(cfg[i]) = "O" THEN 0
               ELSE After(ChildList(n, par, cfg, par[i], IF isA(f) THEN "a" ELSE "b"), f)
        childOf(f) ==
            FirstOf(ChildList(n, par, cfg, inst(f), IF isA(f) THEN "a" ELSE "b"))
        alternateOf(f) ==
            IF ~IsPair(cfg[inst(f)]) THEN 0
            ELSE IF isA(f) THEN f + 1 ELSE f - 1
    IN [f \in ids |->
          Fiber(tagOf[inst(f)], parentOf(f), childOf(f), siblingOf(f),
                alternateOf(f), IF f = placed THEN {"Placement"} ELSE {})]

\* a forest of class components under a HostRoot pair, or under a pair that
\* is not a HostRoot (a subtree taken out of its tree); root.current is one
\* of the two HostRoot fibers
InitFiber ==
    /\ NoHandles
    /\ \E n \in 1..MaxNodes :
       \E par \in Parents(n), cfg \in [1..n -> Configs] :
          /\ Consistent(n, par, cfg)
          /\ \E top \in {HostRoot, ClassComponent}, placed \in 0..(2 * n) :
                /\ placed # 0 =>
                       IF placed % 2 = 1 THEN HasA(cfg[(placed + 1) \div 2])
                       ELSE HasB(cfg[placed \div 2])
                /\ fibers = Forest(n, par, cfg,
                                   [i \in 1..n |-> IF i = 1 THEN top ELSE ClassComponent],
                                   placed)
                /\ current \in IF top = HostRoot
                                THEN {f \in {FiberA(1), FiberB(1)} : f \in DOMAIN fibers}
                                ELSE {0}

\* the return pointers a call has changed, by fiber identity: `of` is the
\* fiber, `to` its new return pointer
ReturnWrites(before, after) ==
    LET changed == Ascending({x \in DOMAIN before :
                                 after[x].return # before[x].return})
    IN [k \in 1..Len(changed) |->
           [field |-> "return", of |-> changed[k], to |-> after[changed[k]].return]]

\* a function of the reflection module was called on a fiber
Reflected(op, target, r, fs) ==
    /\ fibers' = fs
    /\ lastOp' = [op |-> op, target |-> target, arg |-> <<>>, err |-> r.err,
                  steps |-> <<>>, writes |-> ReturnWrites(fibers, fs),
                  result |-> r.value]
    /\ UNCHANGED <<batches, firstBatch, works, updateQueue, committedWorks,
                   rootChildren, regs, log, calls, reactRootContainer,
                   rootsCreated, isBatchingUpdates, current, walk>>

\* the two functions that write nothing are called once on a forest: a
\* second call would find the same forest and return the same
IsFiberMounted ==
    /\ lastOp.op = "init"
    /\ \E f \in DOMAIN fibers :
          Reflected("isFiberMountedImpl", f,
                    Returns(isFiberMountedImpl(fibers, f)), fibers)

FindCurrentFiber ==
    /\ lastOp.op = "init"
    /\ \E f \in DOMAIN fibers :
          Reflected("findCurrentFiberUsingSlowPath", f,
                    findCurrentFiberUsingSlowPath(fibers, current, f), fibers)

NextFiber ==
    \/ IsFiberMounted
    \/ FindCurrentFiber

SpecFiber == InitFiber /\ [][NextFiber]_vars

\* what the instances of a forest with deleted children are made of
DeletedConfigs == {"AB", "S", "SO", "O"}

\* a forest of class components in which children were deleted, under a
\* HostRoot pair or under a pair taken out of its tree
InitDeleted ==
    /\ NoHandles
    /\ \E n \in 1..MaxNodes :
       \E par \in Parents(n), cfg \in [1..n -> DeletedConfigs] :
          /\ Consistent(n, par, cfg)
          /\ \E i \in 2..n : cfg[i] = "O"
          /\ \E top \in {HostRoot, ClassComponent} :
                /\ fibers = Forest(n, par, cfg,
                                   [i \in 1..n |-> IF i = 1 THEN top ELSE ClassComponent],
                                   0)
                /\ current \in IF top = HostRoot THEN {FiberA(1), FiberB(1)} ELSE {0}

SpecDeleted == InitDeleted /\ [][NextFiber]_vars

\* the tags of the instances below the top of a forest
HostTags == {ClassComponent, HostComponent, HostText, HostPortal}

\* what the instances of these forests are made of: the lookup walks the
\* current tree only, whose fibers are paired, new or in a shared child list,
\* with return pointers to either version of the parent
HostConfigs == {"AB", "ABsa", "A", "S", "Ssa"}

\* a forest of components, host fibers and portals under a HostRoot pair
InitHost ==
    /\ NoHandles
    /\ \E n \in 1..MaxNodes :
       \E par \in Parents(n), cfg \in [1..n -> HostConfigs] :
          /\ Consistent(n, par, cfg)
          /\ \E tags \in [2..n -> HostTags] :
                /\ fibers = Forest(n, par, cfg,
                                   [i \in 1..n |-> IF i = 1 THEN HostRoot ELSE tags[i]],
                                   0)
                /\ current \in {f \in {FiberA(1), FiberB(1)} : f \in DOMAIN fibers}

\* a lookup is made on the forest as drawn or as the last lookup has
\* rewritten it: after a lookup that changed no pointer the forest is the one
\* it was called on, where every lookup has been made already
Rewritten == lastOp.op = "init" \/ lastOp.writes # <<>>

FindCurrentHostFiber ==
    /\ Rewritten
    /\ \E f \in DOMAIN fibers :
          LET r == findCurrentHostFiber(fibers, current, f)
          IN Reflected("findCurrentHostFiber", f, r, r.fibers)

FindCurrentHostFiberWithNoPortals ==
    /\ Rewritten
    /\ \E f \in DOMAIN fibers :
          LET r == findCurrentHostFiberWithNoPortals(fibers, current, f)
          IN Reflected("findCurrentHostFiberWithNoPortals", f, r, r.fibers)

NextHost ==
    \/ FindCurrentHostFiber
    \/ FindCurrentHostFiberWithNoPortals

SpecHost == InitHost /\ [][NextHost]_vars

\* the four functions of the reflection module on these forests
NextReflection ==
    \/ NextFiber
    \/ NextHost

SpecReflection == InitHost /\ [][NextReflection]_vars

\* the tags of the instances below the top of a forest the lookup is
\* followed on step by step: it tells host fibers from the others only
WalkTags == {ClassComponent, HostComponent}

InitWalk ==
    /\ NoHandles
    /\ \E n \in 1..MaxNodes :
       \E par \in Parents(n), cfg \in [1..n -> HostConfigs] :
          /\ Consistent(n, par, cfg)
          /\ \E tags \in [2..n -> WalkTags] :
                /\ fibers = Forest(n, par, cfg,
                                   [i \in 1..n |-> IF i = 1 THEN HostRoot ELSE tags[i]],
                                   0)
                /\ current \in {f \in {FiberA(1), FiberB(1)} : f \in DOMAIN fibers}

\* a step of the call left the fibers fs and the locals w
Walked(fs, w) ==
    /\ fibers' = fs
    /\ walk' = w
    /\ UNCHANGED <<batches, firstBatch, works, updateQueue, committedWorks,
                   rootChildren, regs, log, lastOp, calls, reactRootContainer,
                   rootsCreated, isBatchingUpdates, current>>

\* findCurrentHostFiber is called on a fiber
WalkCall ==
    /\ walk.pc = "idle"
    /\ \E f \in DOMAIN fibers : Walked(fibers, WalkStart(fibers, current, f))

WalkAncestors ==
    /\ walk.pc = "ancestors"
    /\ Walked(fibers, AncestorStep(fibers, current, walk))

WalkDescend ==
    /\ walk.pc = "descend"
    /\ Walked(DescendStep(fibers, walk).fibers, DescendStep(fibers, walk).walk)

WalkClimb ==
    /\ walk.pc = "climb"
    /\ Walked(ClimbStep(fibers, walk).fibers, ClimbStep(fibers, walk).walk)

NextWalk ==
    \/ WalkCall
    \/ WalkAncestors
    \/ WalkDescend
    \/ WalkClimb

\* the call runs on: no step of it waits for anything
SpecWalk == InitWalk /\ [][NextWalk]_vars /\ WF_vars(NextWalk)

\* ------------------------------------------------------- reading the state
\* the batches reached from first by _next, in list order
RECURSIVE ListFrom(_, _, _)
ListFrom(bs, b, fuel) ==
    IF b = 0 \/ fuel = 0 THEN <<>>
    ELSE <<b>> \o ListFrom(bs, bs[b].next, fuel - 1)

\* the root's batch list
BatchList == ListFrom(batches, firstBatch, Len(batches))

Range(seq) == {seq[i] : i \in 1..Len(seq)}

Position(seq, x) == CHOOSE i \in 1..Len(seq) : seq[i] = x

Without(seq, x) == SelectSeq(seq, LAMBDA y : y # x)

\* the expiration times of the batches of a list
TimesOf(list) == [i \in 1..Len(list) |-> batches[list[i]].expirationTime]

\* everything the handlers can write
heap == <<batches, firstBatch, works, updateQueue, committedWorks,
          rootChildren, regs, log, reactRootContainer, rootsCreated,
          isBatchingUpdates>>

\* only createBatch has been called so far
OnlyCreated ==
    /\ works = <<>>
    /\ \A b \in 1..Len(batches) : batches[b].defer

\* the step is a call of op on target
Called(op, target) == lastOp'.op = op /\ lastOp'.target = target

\* ----------------------------------------------------------------- claims

\* C1: after createBatch calls alone, every batch created is in the list of
\* root.firstBatch and a batch of lower expiration time comes before one of
\* higher expiration time; times 5, 5, 3 give the list [3, 5, 5] with the two
\* batches of time 5 in insertion order.
C1_AscendingList ==
    OnlyCreated =>
        /\ Range(BatchList) = 1..Len(batches)
        /\ \A i, j \in 1..Len(BatchList) :
               i < j => TimesOf(BatchList)[i] <= TimesOf(BatchList)[j]
        /\ (Len(batches) = 3 /\ lastOp.op = "createBatch"
              /\ [b \in 1..3 |-> batches[b].expirationTime] = <<5, 5, 3>>)
           => BatchList = <<3, 1, 2>>

\* the pending head A (time 10) and the pending batch B (time 3) created
\* after it are the whole list
C2_Scenario(a, b) ==
    /\ a < b
    /\ BatchList = <<a, b>>
    /\ batches[a].expirationTime = 10 /\ batches[b].expirationTime = 3
    /\ batches[a].hasChildren /\ batches[a].defer
    /\ batches[b].hasChildren /\ batches[b].defer

\* the commit of B took B's time to 10, flushed the root once, up to 10, and
\* committed every update of time 10 or more, B's children last
C2_Promoted(a, b) ==
    /\ lastOp'.err = OK
    /\ batches'[b].expirationTime = 10
    /\ ~batches'[b].defer
    /\ Len(SelectSeq(lastOp'.steps, LAMBDA st : st.ev = "flush")) = 1
    /\ \E i \in 1..Len(lastOp'.steps) : lastOp'.steps[i] = Step("flush", 10, "null")
    /\ \A i \in 1..Len(updateQueue) :
           updateQueue[i].expirationTime >= 10
               => updateQueue[i].work \in committedWorks'
    /\ Len(works) + 1 \in committedWorks'
    /\ rootChildren' = batches[b].children

\* C2 (as stated): in that scenario B.commit() takes B's time to 10, flushes
\* the root up to 10 with A's and B's content, and leaves the list empty.
C2_ListEmptyAfterCommit ==
    [][\A a, b \in 1..Len(batches) :
          C2_Scenario(a, b) /\ Called("batch.commit", b)
              => C2_Promoted(a, b) /\ firstBatch' = 0]_vars

\* C2 (amended): in that scenario B.commit() takes B's time to 10, flushes
\* the root once up to 10, which commits the pending updates of time 10 and
\* B's children last, and leaves the list holding A alone, still pending,
\* with A's children enqueued again at time 10.
C2_PromotionKeepsHead ==
    [][\A a, b \in 1..Len(batches) :
          C2_Scenario(a, b) /\ Called("batch.commit", b)
              => /\ C2_Promoted(a, b)
                 /\ BatchList' = <<a>>
                 /\ batches'[a] = [batches[a] EXCEPT !.next = 0]
                 /\ lastOp'.steps[Len(lastOp'.steps)]
                        = Step("enqueue", 10, batches[a].children)
                 /\ updateQueue'[Len(updateQueue')]
                        = [children |-> batches[a].children,
                           expirationTime |-> 10, work |-> Len(works) + 2]]_vars

C2_Witness ==
    /\ lastOp.op = "batch.commit"
    /\ lastOp.err = OK
    /\ Len(lastOp.steps) = 3
    /\ lastOp.steps[2] = Step("flush", 10, "null")
    /\ batches[lastOp.target].expirationTime = 10
    /\ Len(BatchList) = 1
    /\ BatchList[1] < lastOp.target
    /\ batches[BatchList[1]].defer /\ batches[BatchList[1]].hasChildren

\* C3: the commit of a batch that was never rendered marks it committed,
\* takes it out of the list and leaves the other batches in the list in
\* their order, without any flush or enqueue.
C3_EmptyCommitUnlinks ==
    [][\A b \in 1..Len(batches) :
          Called("batch.commit", b) /\ CanCommit(Heap, b) /\ ~batches[b].hasChildren
              => /\ lastOp'.err = OK
                 /\ ~batches'[b].defer
                 /\ BatchList' = Without(BatchList, b)
                 /\ lastOp'.steps = <<>>]_vars

\* C8: a commit of a batch whose earlier commit returned fails with
\* 'Cannot commit a batch multiple times', writes nothing and calls neither
\* flushRoot nor an enqueue; _defer is cleared only by a commit that returns.
C8_SecondCommitFails ==
    [][\A b \in 1..Len(batches) :
          /\ (batches[b].defer /\ ~batches'[b].defer)
                 => Called("batch.commit", b) /\ lastOp'.err = OK
          /\ (Called("batch.commit", b) /\ ~batches[b].defer)
                 => /\ lastOp'.err = ErrCommitTwice
                    /\ lastOp'.steps = <<>>
                    /\ UNCHANGED heap]_vars

C8_Witness ==
    /\ lastOp.op = "batch.commit"
    /\ lastOp.err = ErrCommitTwice
    /\ ~batches[lastOp.target].defer
    /\ batches[lastOp.target].hasChildren
    /\ firstBatch # 0

\* C9: render on a committed batch fails with 'Cannot render a batch that
\* already committed', leaves the batch's children and flag as they were and
\* enqueues nothing.
C9_RenderAfterCommitFails ==
    [][\A b \in 1..Len(batches) :
          (Called("batch.render", b) /\ ~batches[b].defer)
              => /\ lastOp'.err = ErrRenderCommitted
                 /\ lastOp'.steps = <<>>
                 /\ batches'[b].children = batches[b].children
                 /\ batches'[b].hasChildren = batches[b].hasChildren
                 /\ UNCHANGED heap]_vars

C9_Witness ==
    /\ lastOp.op = "batch.render"
    /\ lastOp.err = ErrRenderCommitted
    /\ batches[lastOp.target].hasChildren
    /\ batches[lastOp.target].children # lastOp.arg[1]

\* C10: a new batch is linked after every batch of the list that has its
\* expiration time, and batches of equal time are in the list in the order
\* of their creation.
C10_EqualTimesInCreationOrder ==
    /\ \A i, j \in 1..Len(BatchList) :
           (i < j /\ TimesOf(BatchList)[i] = TimesOf(BatchList)[j])
               => BatchList[i] < BatchList[j]
    /\ lastOp.op = "createBatch" =>
           \A b \in Range(BatchList) \ {lastOp.target} :
               batches[b].expirationTime = batches[lastOp.target].expirationTime
                   => /\ lastOp.target \in Range(BatchList)
                      /\ Position(BatchList, b) < Position(BatchList, lastOp.target)

C10_Witness ==
    /\ lastOp.op = "createBatch"
    /\ lastOp.target = 3
    /\ BatchList = <<1, 3, 2>>
    /\ TimesOf(BatchList) = <<5, 5, 3>>

\* how many times the callback of a registration was invoked
Count(r) == Cardinality({i \in 1..Len(log) : log[i] = r})

\* the invocations of the callbacks queued on a handle, in the order they
\* happened
QueuedLog(handle, id) ==
    SelectSeq(log, LAMBDA r : regs[r].handle = handle /\ regs[r].id = id
                              /\ ~regs[r].late)

\* the functions of a queue
Functions(cbs) == SelectSeq(cbs, LAMBDA r : regs[r].kind # "notfn")

\* the queue up to its first entry that fails: a throwing function is the
\* last one called, a value that is not a function is not called
UpToFirstFailure(cbs) ==
    LET bad == {i \in 1..Len(cbs) : regs[cbs[i]].kind # "fn"}
    IN IF bad = {} THEN cbs
       ELSE LET n == CHOOSE i \in bad : \A j \in bad : i <= j
            IN SubSeq(cbs, 1, IF regs[cbs[n]].kind = "throws" THEN n ELSE n - 1)

\* C4 (as stated): on a Work, every callback queued before the commit
\* notification is invoked exactly once, in registration order, by the first
\* notification, and none before it.
C4_AllQueuedInvoked ==
    \A w \in 1..Len(works) :
        QueuedLog("work", w)
            = IF works[w].didCommit THEN Functions(works[w].callbacks) ELSE <<>>

\* C4 (amended): on a Work, the first commit notification invokes the queued
\* callbacks exactly once each, in registration order, up to and including
\* the first one that throws, or up to the first queued value that is not a
\* function; the callbacks queued behind it are never invoked, and none is
\* invoked before the notification.
C4_QueuedInvokedUpToFailure ==
    \A w \in 1..Len(works) :
        QueuedLog("work", w)
            = IF works[w].didCommit THEN UpToFirstFailure(works[w].callbacks)
              ELSE <<>>

C4_Witness ==
    \E w \in 1..Len(works) :
        /\ works[w].didCommit
        /\ Len(works[w].callbacks) = 2
        /\ regs[works[w].callbacks[1]].kind = "throws"
        /\ regs[works[w].callbacks[2]].kind = "fn"
        /\ log = <<works[w].callbacks[1]>>
        /\ lastOp.op = "work._onCommit"
        /\ lastOp.err = ErrCallbackThrew

\* C5: no registration is invoked more than once, on a Work or on a Batch,
\* and a notification that reaches a handle already notified invokes nothing.
C5_AtMostOnce ==
    [][/\ \A r \in 1..Len(regs') : Count(r)' <= 1
       /\ \A w \in 1..Len(works) :
              (Called("work._onCommit", w) /\ works[w].didCommit)
                  => (log' = log /\ works' = works)
       /\ \A b \in 1..Len(batches) :
              (Called("batch._onComplete", b) /\ batches[b].didComplete)
                  => (log' = log /\ batches' = batches)]_vars

C5_Witness ==
    /\ lastOp.op = "work._onCommit"
    /\ lastOp.steps = <<Step("return", 0, "null")>>
    /\ works[lastOp.target].callbacks # <<>>
    /\ Len(log) = Len(works[lastOp.target].callbacks)

\* C6: a function passed to then() of a Work or a Batch already notified is
\* invoked once, inside that call, is not queued and is not invoked by a
\* later notification.
C6_LateCallbackRunsAtOnce ==
    /\ \A r \in 1..Len(regs) :
           (regs[r].late /\ regs[r].kind # "notfn")
               => /\ Count(r) = 1
                  /\ \A w \in 1..Len(works) : r \notin Range(works[w].callbacks)
                  /\ \A b \in 1..Len(batches) : r \notin Range(batches[b].callbacks)
    /\ \A r \in 1..Len(regs) :
           regs[r].late <=> IF regs[r].handle = "work"
                            THEN works[regs[r].id].didCommit
                                 /\ r \notin Range(works[regs[r].id].callbacks)
                            ELSE batches[regs[r].id].didComplete
                                 /\ r \notin Range(batches[regs[r].id].callbacks)
    /\ (lastOp.op \in {"work.then", "batch.then"} /\ regs # <<>>
          /\ regs[Len(regs)].late /\ regs[Len(regs)].kind # "notfn")
           => log # <<>> /\ log[Len(log)] = Len(regs)

C6_Witness ==
    /\ lastOp.op = "work._onCommit"
    /\ \E r \in 1..Len(regs) :
           /\ regs[r].late /\ regs[r].kind = "fn"
           /\ regs[r].handle = "work" /\ regs[r].id = lastOp.target
           /\ Count(r) = 1

\* C7: root.render(children, cb) with a function cb registers cb on the work
\* it returns before it enqueues the update; cb is not invoked before the
\* commit notification of that update and is invoked exactly once by it,
\* after the scheduler has flushed the update.
C7_RenderCallbackOnce ==
    /\ (lastOp.op = "root.render" /\ lastOp.arg[2] \in {"fn", "throws"})
           => /\ lastOp.err = OK
              /\ Len(works[lastOp.target].callbacks) = 1
              /\ regs[works[lastOp.target].callbacks[1]]
                     = NewReg(lastOp.arg[2], "work", lastOp.target, FALSE, "render")
              /\ lastOp.steps = <<Step("then", 0, "null"),
                                  Step("enqueue", lastOp.arg[3], lastOp.arg[1])>>
              /\ updateQueue[Len(updateQueue)].work = lastOp.target
    /\ \A r \in 1..Len(regs) :
           (regs[r].via = "render" /\ regs[r].kind # "notfn")
               => /\ Count(r) = IF works[regs[r].id].didCommit THEN 1 ELSE 0
                  /\ works[regs[r].id].didCommit => regs[r].id \in committedWorks
                  /\ regs[r].id \in committedWorks
                         => \A i \in 1..Len(updateQueue) :
                                updateQueue[i].work # regs[r].id

C7_Witness ==
    /\ lastOp.op = "work._onCommit"
    /\ lastOp.steps = <<>>
    /\ \E r \in 1..Len(regs) :
           /\ regs[r].via = "render" /\ regs[r].kind = "fn"
           /\ regs[r].id = lastOp.target
           /\ Count(r) = 1

\* C19: when commit() returns on a batch that has children, the batch is no
\* longer reachable from root.firstBatch and the list holds exactly the other
\* batches that were in it before the call, in the same relative order,
\* whether the batch was the head of the list or not.
C19_CommitRemovesOnlyItself ==
    [][\A b \in 1..Len(batches) :
          Called("batch.commit", b) /\ batches[b].hasChildren /\ lastOp'.err = OK
              => /\ b \notin Range(BatchList')
                 /\ BatchList' = Without(BatchList, b)]_vars

\* the commit of the last batch of a list of three returned
C19_Witness ==
    /\ lastOp.op = "batch.commit"
    /\ lastOp.err = OK
    /\ batches[lastOp.target].hasChildren
    /\ Len(lastOp.writes) >= 1
    /\ lastOp.writes[1].field = "_expirationTime"
    /\ Len(BatchList) = 2
    /\ lastOp.target \notin Range(BatchList)

LegacyRenderOps == {"render", "hydrate", "unstable_renderSubtreeIntoContainer"}

\* the last call made the Root of the container
MadeRoot(op) ==
    /\ op.op \in LegacyRenderOps
    /\ \E i \in 1..Len(op.writes) : op.writes[i].field = "_reactRootContainer"

\* C17: after children were rendered into a fresh container, an immediate
\* unmountComponentAtNode returns with the unmount committed: the root has
\* no children left (no host-bearing fiber under it), nothing is pending,
\* and container._reactRootContainer is cleared; inside batchedUpdates too.
C17_RenderThenUnmount ==
    [][MadeRoot(lastOp) /\ Called("unmountComponentAtNode", 0)
          /\ lastOp'.arg = <<TRUE>>
          => /\ lastOp'.err = OK
             /\ rootChildren' = "null"
             /\ updateQueue' = <<>>
             /\ Len(works') = Len(works) + 1
             /\ Len(works') \in committedWorks'
             /\ works'[Len(works')].didCommit
             /\ reactRootContainer' = 0]_vars

\* children X were rendered into the fresh container inside batchedUpdates
\* and the container was unmounted right after
C17_Witness ==
    /\ lastOp.op = "unmountComponentAtNode"
    /\ lastOp.err = OK
    /\ isBatchingUpdates
    /\ calls = 3
    /\ rootsCreated = 1
    /\ Len(works) = 2
    /\ works[1].didCommit
    /\ reactRootContainer = 0
    /\ rootChildren = "null"

\* C18: on one container, a legacy render / hydrate /
\* unstable_renderSubtreeIntoContainer call that finds no Root in
\* container._reactRootContainer makes one and stores it there; a call that
\* finds a Root keeps it and makes none; the reference is the last Root
\* made, and only unmountComponentAtNode takes it away.
C18_RootMadeOnce ==
    [][/\ reactRootContainer' \in {0, rootsCreated'}
       /\ (reactRootContainer # 0 /\ reactRootContainer' = 0)
              => Called("unmountComponentAtNode", 0)
       /\ lastOp'.op \in LegacyRenderOps =>
              IF reactRootContainer # 0
              THEN /\ reactRootContainer' = reactRootContainer
                   /\ rootsCreated' = rootsCreated
              ELSE IF lastOp'.err \in {ErrNotContainer, ErrParentComponent}
              THEN /\ reactRootContainer' = 0
                   /\ rootsCreated' = rootsCreated
              ELSE /\ rootsCreated' = rootsCreated + 1
                   /\ reactRootContainer' = rootsCreated']_vars

\* three renders in a row went through the Root the first one made
C18_Witness ==
    /\ calls = 3
    /\ Len(works) = 3
    /\ lastOp.op = "hydrate"
    /\ lastOp.err = OK
    /\ ~MadeRoot(lastOp)
    /\ rootsCreated = 1
    /\ reactRootContainer = 1
    /\ rootChildren = lastOp.arg[1]

\* the fiber and its ancestors along the return pointers
RECURSIVE ReturnChain(_, _)
ReturnChain(fs, f) ==
    IF f = 0 THEN {} ELSE {f} \cup ReturnChain(fs, fs[f].return)

\* the last fiber of the return chain
TopOf(fs, f) == CHOOSE t \in ReturnChain(fs, f) : fs[t].return = 0

PlacementOnPath(fs, f) ==
    \E x \in ReturnChain(fs, f) : "Placement" \in fs[x].effectTag

\* the closure of a set of fibers under the child and sibling links
RECURSIVE LinkedFrom(_, _)
LinkedFrom(fs, S) ==
    LET more == S \cup (({fs[x].child : x \in S} \cup {fs[x].sibling : x \in S}) \ {0})
    IN IF more = S THEN S ELSE LinkedFrom(fs, more)

\* the fiber and what its child pointer leads to by child and sibling links
SubtreeOf(fs, top) ==
    IF top = 0 THEN {} ELSE {top} \cup LinkedFrom(fs, {fs[top].child} \ {0})

\* C11: in a forest under a HostRoot pair, for every fiber F that has an
\* alternate, when one of F and F.alternate is in the tree that child and
\* sibling links reach from root.current and the other is not,
\* findCurrentFiberUsingSlowPath(F) returns the one that is.
C11_ResolvesToCurrent ==
    \A f \in DOMAIN fibers :
        LET alt == fibers[f].alternate
            tree == SubtreeOf(fibers, current)
        IN (alt # 0 /\ current # 0 /\ (f \in tree) # (alt \in tree))
           => findCurrentFiberUsingSlowPath(fibers, current, f)
                  = Returns(IF f \in tree THEN f ELSE alt)

\* the call was made on the work-in-progress fiber of a shared-list child's
\* child: the walk swaps nothing, reaches the shared list and answers with
\* the alternate
C11_Witness ==
    /\ lastOp.op = "findCurrentFiberUsingSlowPath"
    /\ lastOp.err = OK
    /\ current # 0
    /\ lastOp.result # 0
    /\ lastOp.result = fibers[lastOp.target].alternate
    /\ fibers[lastOp.target].return # 0
    /\ lastOp.result \in SubtreeOf(fibers, current)
    /\ lastOp.target \notin SubtreeOf(fibers, current)
    /\ fibers[lastOp.target].return = fibers[lastOp.result].return
    /\ fibers[fibers[lastOp.target].return].return # 0

\* C12 (as stated): a fiber whose return chain ends at a HostRoot fiber and
\* which that fiber reaches by child and sibling links is MOUNTED.
C12_ReachableIsMounted ==
    \A f \in DOMAIN fibers :
        LET top == TopOf(fibers, f)
        IN (fibers[top].tag = HostRoot /\ f \in SubtreeOf(fibers, top))
           => isFiberMounted(fibers, f)

\* C12 (amended): such a fiber is MOUNTED, except that a fiber without
\* alternate is MOUNTING when it or one of its ancestors along the return
\* pointers carries the Placement effect.
C12_ReachableIsMountedUnlessPlaced ==
    \A f \in DOMAIN fibers :
        LET top == TopOf(fibers, f)
        IN (fibers[top].tag = HostRoot /\ f \in SubtreeOf(fibers, top))
           => isFiberMountedImpl(fibers, f)
                  = IF fibers[f].alternate = 0 /\ PlacementOnPath(fibers, f)
                    THEN MOUNTING ELSE MOUNTED

\* isFiberMountedImpl was called on a fiber that has an alternate, below a
\* fiber carrying Placement, in a tree under a HostRoot
C12_Witness ==
    /\ lastOp.op = "isFiberMountedImpl"
    /\ lastOp.result = MOUNTED
    /\ fibers[lastOp.target].alternate # 0
    /\ fibers[lastOp.target].return # 0
    /\ "Placement" \in fibers[fibers[lastOp.target].return].effectTag
    /\ lastOp.target \in SubtreeOf(fibers, TopOf(fibers, lastOp.target))

\* C13 (as stated): a fiber whose return chain does not end at a HostRoot
\* fiber is UNMOUNTED and findCurrentFiberUsingSlowPath fails on it with
\* 'Unable to find node on an unmounted component.'
C13_DisconnectedIsUnmounted ==
    \A f \in DOMAIN fibers :
        fibers[TopOf(fibers, f)].tag # HostRoot
           => /\ isFiberMountedImpl(fibers, f) = UNMOUNTED
              /\ findCurrentFiberUsingSlowPath(fibers, current, f)
                     = Throws(ErrUnmounted)

\* C13 (amended): such a fiber is UNMOUNTED and the lookup fails on it with
\* that message, unless the fiber has no alternate and it or one of its
\* ancestors carries Placement: then it is MOUNTING and the lookup returns
\* null.
C13_DisconnectedIsUnmountedUnlessPlaced ==
    \A f \in DOMAIN fibers :
        fibers[TopOf(fibers, f)].tag # HostRoot
           => IF fibers[f].alternate = 0 /\ PlacementOnPath(fibers, f)
              THEN /\ isFiberMountedImpl(fibers, f) = MOUNTING
                   /\ findCurrentFiberUsingSlowPath(fibers, current, f) = Returns(0)
              ELSE /\ isFiberMountedImpl(fibers, f) = UNMOUNTED
                   /\ findCurrentFiberUsingSlowPath(fibers, current, f)
                          = Throws(ErrUnmounted)

\* the lookup failed on a fiber with an alternate, two levels below the top
\* of a subtree that is under no HostRoot
C13_Witness ==
    /\ lastOp.op = "findCurrentFiberUsingSlowPath"
    /\ lastOp.err = ErrUnmounted
    /\ fibers[lastOp.target].alternate # 0
    /\ fibers[TopOf(fibers, lastOp.target)].tag # HostRoot
    /\ Cardinality(ReturnChain(fibers, lastOp.target)) = 3

\* C14: a fiber without alternate is MOUNTING when it or one of its
\* ancestors along the return pointers carries Placement, whatever the tag
\* of the top of the chain.
C14_PlacedIsMounting ==
    \A f \in DOMAIN fibers :
        (fibers[f].alternate = 0 /\ PlacementOnPath(fibers, f))
           => /\ isFiberMountedImpl(fibers, f) = MOUNTING
              /\ ~isFiberMounted(fibers, f)

\* isFiberMountedImpl answered MOUNTING for a fiber without alternate whose
\* parent, which has an alternate, carries Placement, under a HostRoot
C14_Witness ==
    /\ lastOp.op = "isFiberMountedImpl"
    /\ lastOp.result = MOUNTING
    /\ fibers[lastOp.target].alternate = 0
    /\ fibers[lastOp.target].effectTag = {}
    /\ fibers[lastOp.target].return # 0
    /\ fibers[fibers[lastOp.target].return].alternate # 0
    /\ "Placement" \in fibers[fibers[lastOp.target].return].effectTag
    /\ fibers[TopOf(fibers, lastOp.target)].tag = HostRoot

IsHost(fs, f) == fs[f].tag \in {HostComponent, HostText}

\* the fibers of the subtree of node in pre-order; with pruned, the children
\* of a HostPortal are left out
RECURSIVE PreOrder(_, _, _)
RECURSIVE PreOrderOfList(_, _, _)
PreOrder(fs, node, pruned) ==
    <<node>> \o (IF fs[node].child # 0 /\ ~(pruned /\ fs[node].tag = HostPortal)
                 THEN PreOrderOfList(fs, fs[node].child, pruned)
                 ELSE <<>>)

PreOrderOfList(fs, first, pruned) ==
    IF first = 0 THEN <<>>
    ELSE PreOrder(fs, first, pruned) \o PreOrderOfList(fs, fs[first].sibling, pruned)

\* the first host fiber of a sequence of fibers, 0 when there is none
FirstHost(fs, list) ==
    IF \E k \in 1..Len(list) : IsHost(fs, list[k])
    THEN list[CHOOSE k \in 1..Len(list) :
                 /\ IsHost(fs, list[k])
                 /\ \A j \in 1..(k - 1) : ~IsHost(fs, list[j])]
    ELSE 0

\* the fibers from node up to top along the return pointers, top excluded
RECURSIVE Above(_, _, _)
Above(fs, node, top) ==
    IF node = 0 \/ node = top THEN {}
    ELSE {fs[node].return} \cup Above(fs, fs[node].return, top)

\* C15: for a mounted fiber whose current version has no HostComponent and
\* no HostText in its subtree, findCurrentHostFiber returns null.
C15_NoHostGivesNull ==
    \A f \in DOMAIN fibers :
        LET currentParent == findCurrentFiberUsingSlowPath(fibers, current, f)
        IN (/\ isFiberMounted(fibers, f)
            /\ currentParent.err = OK /\ currentParent.value # 0
            /\ \A x \in SubtreeOf(fibers, currentParent.value) : ~IsHost(fibers, x))
           => LET r == findCurrentHostFiber(fibers, current, f)
              IN r.err = OK /\ r.value = 0

\* the lookup was made on the work-in-progress HostRoot, which has a host
\* child of its own, and walked the component under the current one
C15_Witness ==
    /\ lastOp.op = "findCurrentHostFiber"
    /\ lastOp.err = OK
    /\ lastOp.result = 0
    /\ current # 0
    /\ lastOp.target = fibers[current].alternate
    /\ Cardinality(SubtreeOf(fibers, current)) = 2
    /\ \E x \in SubtreeOf(fibers, lastOp.target) : IsHost(fibers, x)

\* C16: findCurrentHostFiberWithNoPortals returns the first host fiber, in
\* pre-order, of the current version's subtree with the children of every
\* HostPortal left out, null when there is none; no fiber between the result
\* and the fiber the walk started from is a HostPortal.
C16_NoPortalCrossed ==
    \A f \in DOMAIN fibers :
        LET currentParent == findCurrentFiberUsingSlowPath(fibers, current, f)
        IN (currentParent.err = OK /\ currentParent.value # 0)
           => LET r == findCurrentHostFiberWithNoPortals(fibers, current, f)
              IN /\ r.err = OK
                 /\ r.value = FirstHost(fibers, PreOrder(fibers, currentParent.value, TRUE))
                 /\ r.value # 0 =>
                        \A x \in Above(r.fibers, r.value, currentParent.value) :
                            fibers[x].tag # HostPortal

\* the walk from the current HostRoot came to a HostPortal that has a host
\* child, did not go into it and returned null
C16_Witness ==
    /\ lastOp.op = "findCurrentHostFiberWithNoPortals"
    /\ lastOp.err = OK
    /\ lastOp.result = 0
    /\ lastOp.target = current
    /\ \E x \in SubtreeOf(fibers, current) :
          /\ fibers[x].tag = HostPortal
          /\ fibers[x].child # 0
          /\ IsHost(fibers, fibers[x].child)

\* the calls out a commit made after its flushRoot
AfterFlush(steps) ==
    LET k == CHOOSE i \in 1..Len(steps) : steps[i].ev = "flush"
    IN SubSeq(steps, k + 1, Len(steps))

\* C21: when the commit of a batch with children has flushed the root and
\* taken the batch out of the list, the batch that is now the head is
\* rendered again, once, with its stored children at its own expiration
\* time, if there is one and it has children; otherwise the commit enqueues
\* nothing after the flush.  The commit returns in both cases.
C21_CascadeToNewHead ==
    [][\A b \in 1..Len(batches) :
          /\ Called("batch.commit", b)
          /\ batches[b].hasChildren
          /\ \E i \in 1..Len(lastOp'.steps) : lastOp'.steps[i].ev = "flush"
          => LET head == firstBatch'
                 cascades == head # 0 /\ batches[head].hasChildren
             IN /\ lastOp'.err = OK
                /\ b \notin Range(BatchList')
                /\ AfterFlush(lastOp'.steps)
                       = IF cascades
                         THEN <<Step("enqueue", batches[head].expirationTime,
                                     batches[head].children)>>
                         ELSE <<>>
                /\ cascades =>
                       /\ batches'[head] = [batches[head] EXCEPT !.next = batches'[head].next]
                       /\ updateQueue'[Len(updateQueue')]
                              = [children |-> batches[head].children,
                                 expirationTime |-> batches[head].expirationTime,
                                 work |-> Len(works')]]_vars

\* the head of a list of two was committed and the batch behind it, rendered
\* before at a later time, was enqueued again
C21_Witness ==
    /\ lastOp.op = "batch.commit"
    /\ lastOp.err = OK
    /\ lastOp.target = 1
    /\ lastOp.steps = <<Step("flush", 10, "null"), Step("enqueue", 5, "Y")>>
    /\ BatchList = <<2>>
    /\ batches[2].defer /\ batches[2].children = "Y"
    /\ Len(updateQueue) = 2

\* the mount status of a fiber without alternate, read off the forest
StatusOfNew(fs, f) ==
    IF PlacementOnPath(fs, f) THEN MOUNTING
    ELSE IF fs[TopOf(fs, f)].tag = HostRoot THEN MOUNTED
    ELSE UNMOUNTED

C23_PairedNeverMounting ==
    (lastOp.op = "isFiberMountedImpl" /\ fibers[lastOp.target].alternate # 0)
    => LET f == lastOp.target
       IN /\ lastOp.result # MOUNTING
          /\ lastOp.result = IF fibers[TopOf(fibers, f)].tag = HostRoot
                             THEN MOUNTED ELSE UNMOUNTED
          /\ isFiberMounted(fibers, f) <=> fibers[TopOf(fibers, f)].tag = HostRoot

\* isFiberMountedImpl answered MOUNTED for a fiber that has an alternate and
\* carries Placement itself, below the HostRoot
C23_Witness ==
    /\ lastOp.op = "isFiberMountedImpl"
    /\ lastOp.result = MOUNTED
    /\ fibers[lastOp.target].alternate # 0
    /\ "Placement" \in fibers[lastOp.target].effectTag
    /\ fibers[lastOp.target].return # 0

\* C24: findCurrentHostFiber(F) returns the first HostComponent or HostText
\* fiber of the pre-order walk (the fiber, then its children, then their
\* next siblings) of the subtree of the current version of F, null when
\* there is none; the result is that fiber or one of its descendants, never
\* a sibling or an ancestor of it.
C24_FirstHostInPreOrder ==
    \A f \in DOMAIN fibers :
        LET currentParent == findCurrentFiberUsingSlowPath(fibers, current, f)
            r == findCurrentHostFiber(fibers, current, f)
        IN (currentParent.err = OK /\ currentParent.value # 0)
           => /\ r.err = OK
              /\ r.value = FirstHost(fibers, PreOrder(fibers, currentParent.value, FALSE))
              /\ r.value # 0 =>
                     /\ r.value \in SubtreeOf(fibers, currentParent.value)
                     /\ r.value # currentParent.value =>
                            currentParent.value \in Above(r.fibers, r.value, 0)

\* the lookup on a component without child, whose next sibling is a host
\* fiber, answered null
C24_Witness ==
    /\ lastOp.op = "findCurrentHostFiber"
    /\ lastOp.err = OK
    /\ lastOp.result = 0
    /\ fibers[lastOp.target].tag = ClassComponent
    /\ fibers[lastOp.target].child = 0
    /\ fibers[lastOp.target].sibling # 0
    /\ IsHost(fibers, fibers[lastOp.target].sibling)
    /\ lastOp.target \in SubtreeOf(fibers, current)

\* the walk of the lookup from the pair <<a, b>> comes to a parent whose two
\* versions have the same first child, with neither a nor b in that list
RECURSIVE SharedMiss(_, _, _)
SharedMiss(fs, a, b) ==
    LET parentA == fs[a].return
        parentB == IF parentA # 0 THEN fs[parentA].alternate ELSE 0
    IN IF parentA = 0 \/ parentB = 0 THEN FALSE
       ELSE IF fs[parentA].child = fs[parentB].child
       THEN ScanChildren(fs, fs[parentA].child, a, b) = "none"
       ELSE LET next == NextPair(fs, a, b, parentA, parentB)
            IN /\ next # <<0, 0>>
               /\ fs[next[1]].alternate = next[2]
               /\ SharedMiss(fs, next[1], next[2])

\* the failures of the lookup that tell of a broken structure
StructuralErrors == {ErrChildNotFound, ErrReturnAlternates}

\* C25 (as stated): when both versions of the parent have the same first
\* child and neither walked fiber is in that child list, the lookup fails
\* with a structural failure, not with the failure it raises for unmounted
\* fibers.
C25_SharedMissIsStructural ==
    \A f \in DOMAIN fibers :
        (fibers[f].alternate # 0 /\ SharedMiss(fibers, f, fibers[f].alternate))
           => LET r == findCurrentFiberUsingSlowPath(fibers, current, f)
              IN r.err \in StructuralErrors /\ r.err # ErrUnmounted

\* C25 (amended): in that case the lookup fails with 'Unable to find node on
\* an unmounted component.', the very failure it raises for unmounted
\* fibers, and with none of the structural failures; it does so also when
\* the return chain of the fiber ends at a HostRoot.
C25_SharedMissIsNotFound ==
    \A f \in DOMAIN fibers :
        (fibers[f].alternate # 0 /\ SharedMiss(fibers, f, fibers[f].alternate))
           => LET r == findCurrentFiberUsingSlowPath(fibers, current, f)
              IN /\ r = Throws(ErrUnmounted)
                 /\ r.err \notin StructuralErrors

\* the lookup failed on a deleted child whose parent's versions share a
\* child list that is not empty, under a HostRoot: isFiberMountedImpl calls
\* the fiber MOUNTED
C25_Witness ==
    /\ lastOp.op = "findCurrentFiberUsingSlowPath"
    /\ lastOp.err = ErrUnmounted
    /\ fibers[lastOp.target].alternate # 0
    /\ SharedMiss(fibers, lastOp.target, fibers[lastOp.target].alternate)
    /\ fibers[lastOp.target].return # 0
    /\ fibers[fibers[lastOp.target].return].child # 0
    /\ isFiberMountedImpl(fibers, lastOp.target) = MOUNTED

\* C26: after any createBatch, render and commit calls on one root, every
\* batch that was created and is not committed is reached from
\* root.firstBatch by following _next.
C26_PendingReachable ==
    \A b \in 1..Len(batches) : batches[b].defer => b \in Range(BatchList)

\* C27: the first commit() of a batch returns without an error, whatever
\* was called before on the other batches of the root; a commit fails only
\* on a batch that was committed before.  (A batch is still deferred exactly
\* when no commit of it has returned.)
C27_FirstCommitSucceeds ==
    [][\A b \in 1..Len(batches) :
          (Called("batch.commit", b) /\ batches[b].defer) => lastOp'.err = OK]_vars

\* the callbacks of a work's queue behind the first entry that fails
Skipped(w) ==
    Range(works[w].callbacks) \ Range(UpToFirstFailure(works[w].callbacks))

\* C28: when a callback fails while a Work drains its queue on commit (it
\* throws, or it is not a function), the error leaves _onCommit, the Work is
\* and stays committed, the callbacks queued behind the failing one have not
\* been invoked and are invoked by no later notification, which returns
\* without invoking anything.
C28_NoIsolationNoRetry ==
    [][\A w \in 1..Len(works) :
          /\ works[w].didCommit => works'[w].didCommit
          /\ works'[w].didCommit => \A r \in Skipped(w)' : Count(r)' = 0
          /\ (Called("work._onCommit", w) /\ ~works[w].didCommit
                  /\ FirstFailure(regs, works[w].callbacks) # "fn")
                 => /\ lastOp'.err \in {ErrInvalidCallback, ErrCallbackThrew}
                    /\ works'[w] = [works[w] EXCEPT !.didCommit = TRUE]
                    /\ log' = log \o UpToFirstFailure(works[w].callbacks)
                    /\ Skipped(w) # {} => Skipped(w)' = Skipped(w)
          /\ (Called("work._onCommit", w) /\ works[w].didCommit)
                 => /\ lastOp'.err = OK
                    /\ log' = log
                    /\ works' = works]_vars

\* the first notification of a work stopped at a queued value that is not a
\* function, and the second one has returned without calling the function
\* queued behind it
C28_Witness ==
    /\ lastOp.op = "work._onCommit"
    /\ lastOp.err = OK
    /\ lastOp.steps = <<Step("return", 0, "null")>>
    /\ works[lastOp.target].didCommit
    /\ Len(works[lastOp.target].callbacks) = 2
    /\ regs[works[lastOp.target].callbacks[1]].kind = "notfn"
    /\ regs[works[lastOp.target].callbacks[2]].kind = "fn"
    /\ log = <<>>

\* the fibers of a child list, from its first fiber on
RECURSIVE SiblingsFrom(_, _)
SiblingsFrom(fs, first) ==
    IF first = 0 THEN {} ELSE {first} \cup SiblingsFrom(fs, fs[first].sibling)

HostLookups == {"findCurrentHostFiber", "findCurrentHostFiberWithNoPortals"}

\* C29: isFiberMounted and findCurrentFiberUsingSlowPath write no field of
\* any fiber; findCurrentHostFiber and findCurrentHostFiberWithNoPortals
\* write return pointers only, of fibers below the resolved current fiber
\* in the subtree they search, and the pointer written is the fiber of that
\* subtree in whose child list the fiber is; child, sibling, alternate, tag,
\* effectTag and root.current are left as they were.
C29_OnlyReturnPointersWritten ==
    [][/\ current' = current
       /\ DOMAIN fibers' = DOMAIN fibers
       /\ lastOp'.op \in {"isFiberMountedImpl", "findCurrentFiberUsingSlowPath"}
              => fibers' = fibers
       /\ lastOp'.op \in HostLookups =>
              LET cp == findCurrentFiberUsingSlowPath(fibers, current, lastOp'.target)
                  searched ==
                      IF cp.err # OK \/ cp.value = 0 THEN {}
                      ELSE Range(PreOrder(fibers, cp.value,
                               lastOp'.op = "findCurrentHostFiberWithNoPortals"))
              IN \A x \in DOMAIN fibers :
                    /\ fibers'[x] = [fibers[x] EXCEPT !.return = fibers'[x].return]
                    /\ fibers'[x].return # fibers[x].return =>
                           /\ x \in searched \ {cp.value}
                           /\ fibers'[x].return \in searched
                           /\ x \in SiblingsFrom(fibers,
                                      fibers[fibers'[x].return].child)]_vars

\* a lookup has rewritten the return pointers of a child and of its next
\* sibling, which pointed to the other version of their parent
C29_Witness ==
    /\ lastOp.op \in HostLookups
    /\ lastOp.err = OK
    /\ Len(lastOp.writes) = 2
    /\ fibers[lastOp.writes[1].of].sibling = lastOp.writes[2].of
    /\ lastOp.writes[1].to = lastOp.writes[2].to
    /\ fibers[lastOp.writes[1].to].alternate # 0

\* the call followed step by step has ended as findCurrentHostFiber does on
\* the forest it was made on
WalkAgrees ==
    walk.pc = "done" =>
        findCurrentHostFiber(walk.from, current, walk.fiber)
            = Found(walk.err, walk.value, fibers)

\* C30: on the forests drawn (finite, return chains and child lists without
\* cycle, return pointers of the descendants fresh, stale or pointing to the
\* other version of the parent) every call of findCurrentHostFiber comes to
\* its end: it returns a fiber or null, or it throws.
C30_LookupTerminates ==
    (walk.pc \in {"ancestors", "descend", "climb"}) ~> (walk.pc = "done")

\* a call on the work-in-progress HostRoot went up to the root, down the
\* current tree rewriting a return pointer, back up through it, and
\* returned null
C30_Witness ==
    /\ walk.pc = "done"
    /\ walk.err = OK
    /\ walk.value = 0
    /\ walk.climbed
    /\ walk.fiber # walk.currentParent
    /\ fibers # walk.from
    /\ WalkAgrees

====
